---- MODULE Spec2Model ----
(***************************************************************************)
(* TwinBot personal assistant: the record stores under data/, the          *)
(* operations that write them, and the daily briefing that reads them.     *)
(*                                                                         *)
(* Text that the program compares, sorts or parses (dates, titles, times)  *)
(* is a sequence of character codes, so that Python's str ordering and     *)
(* strptime are computed and not assumed.  Text that is only stored and    *)
(* printed is a TLA+ string.                                               *)
(***************************************************************************)
EXTENDS Integers, Sequences, FiniteSets, TLC

VARIABLES
    files,  \* data/<name>.json for every store: what is on disk
    today,  \* now().date(): the calendar day of the wall clock
    out,    \* what the handler that ran last printed or returned
    pc      \* where the program is: at a menu, or inside a handler that
            \* takes time (a countdown, a briefing being built)

vars == <<files, today, out, pc>>

(***************************************************************************)
(* Bounds of the model.                                                    *)
(***************************************************************************)
MaxRecords == 4     \* records one store holds at most
MaxTotal == 2       \* records all stores hold together, whole-program runs
MaxInterrupted == 1 \* store files an interrupted save has left torn

(***************************************************************************)
(* Text.                                                                   *)
(***************************************************************************)
IsDigit(c) == c >= 48 /\ c <= 57

DigitVal(c) == c - 48

\* Python's str "<": code point by code point, a proper prefix first.
RECURSIVE StrLess(_, _)
StrLess(a, b) ==
    IF b = <<>> THEN FALSE
    ELSE IF a = <<>> THEN TRUE
    ELSE IF Head(a) # Head(b) THEN Head(a) < Head(b)
    ELSE StrLess(Tail(a), Tail(b))

\* str.lower() on ASCII text.
Lower(s) == [i \in 1..Len(s) |-> IF s[i] >= 65 /\ s[i] <= 90 THEN s[i] + 32 ELSE s[i]]

\* list.sort(key=...) on <<key, item>> pairs: ascending by key, and stable (an
\* item goes after the items whose key is not greater than its own).
RECURSIVE InsertSorted(_, _)
InsertSorted(p, s) ==
    IF s = <<>> THEN <<p>>
    ELSE IF StrLess(p[1], Head(s)[1]) THEN <<p>> \o s
    ELSE <<Head(s)>> \o InsertSorted(p, Tail(s))

RECURSIVE SortPairs(_)
SortPairs(s) ==
    IF s = <<>> THEN <<>>
    ELSE InsertSorted(s[Len(s)], SortPairs(SubSeq(s, 1, Len(s) - 1)))

SortByKey(s, Key(_)) ==
    LET sorted == SortPairs([i \in 1..Len(s) |-> <<Key(s[i]), s[i]>>])
    IN  [i \in 1..Len(s) |-> sorted[i][2]]

\* s[:n]
Take(s, n) == SubSeq(s, 1, IF Len(s) < n THEN Len(s) ELSE n)

(***************************************************************************)
(* Calendar dates.                                                         *)
(***************************************************************************)
IsLeap(y) == (y % 4 = 0) /\ ((y % 100 # 0) \/ (y % 400 = 0))

DaysInMonth(y, m) ==
    IF m = 2 THEN (IF IsLeap(y) THEN 29 ELSE 28)
    ELSE IF m \in {4, 6, 9, 11} THEN 30 ELSE 31

RECURSIVE DaysBeforeMonth(_, _)
DaysBeforeMonth(y, m) ==
    IF m = 1 THEN 0 ELSE DaysBeforeMonth(y, m - 1) + DaysInMonth(y, m - 1)

\* date.toordinal(): 1 for 0001-01-01.
ToOrdinal(d) ==
    LET y1 == d.year - 1
    IN  y1 * 365 + (y1 \div 4) - (y1 \div 100) + (y1 \div 400)
        + DaysBeforeMonth(d.year, d.month) + d.day

\* datetime.strptime(s, "%Y-%m-%d"): four year digits, a month of one or two
\* digits (1..12), a day of one or two digits (1..31, or a blank and a
\* digit), nothing before or after; then the day must exist in the month.
\* [ok |-> FALSE] stands for the ValueError strptime raises.
NoDate == [ok |-> FALSE, year |-> 0, month |-> 0, day |-> 0]

Strptime(s) ==
    LET Fits(ml, dl) ==
            /\ Len(s) = 6 + ml + dl
            /\ \A i \in 1..4 : IsDigit(s[i])
            /\ s[5] = 45
            /\ s[6 + ml] = 45
            /\ \A i \in 6..(5 + ml) : IsDigit(s[i])
            /\ IsDigit(s[6 + ml + dl])
            /\ (dl = 2 => (IsDigit(s[7 + ml]) \/ s[7 + ml] = 32))
        Num(from, to) ==
            IF to = from THEN DigitVal(s[from])
            ELSE (IF s[from] = 32 THEN 0 ELSE DigitVal(s[from])) * 10 + DigitVal(s[to])
        shapes == {p \in {1, 2} \X {1, 2} : Fits(p[1], p[2])}
    IN  IF shapes = {} THEN NoDate
        ELSE LET p == CHOOSE q \in shapes : TRUE
                 y == DigitVal(s[1]) * 1000 + DigitVal(s[2]) * 100
                        + DigitVal(s[3]) * 10 + DigitVal(s[4])
                 m == Num(6, 5 + p[1])
                 d == Num(7 + p[1], 6 + p[1] + p[2])
             IN  IF /\ y >= 1
                    /\ m >= 1 /\ m <= 12
                    /\ d >= 1 /\ d <= 31
                    /\ d <= DaysInMonth(y, m)
                 THEN [ok |-> TRUE, year |-> y, month |-> m, day |-> d]
                 ELSE NoDate

\* days_until(target_date_str): (target - now().date()).days, for a string
\* strptime accepts.
\* days_until with the time of day kept: (target - now()).days
days_until_from_now(s, now) ==
    ((ToOrdinal(Strptime(s)) - ToOrdinal(now)) * 24 - now.hour) \div 24

days_until(s, now) == ToOrdinal(Strptime(s)) - ToOrdinal(now)

\* Whether days_until(s) raises ValueError.
BadDate(s) == ~Strptime(s).ok

\* friendly_deadline with "days" for every overdue count.
friendly_deadline_plural(d) ==
    IF d = 0 THEN [text |-> "today", n |-> 0]
    ELSE IF d = 1 THEN [text |-> "tomorrow", n |-> 1]
    ELSE IF d > 1 THEN [text |-> "in N days", n |-> d]
    ELSE [text |-> "overdue by N days", n |-> -d]

\* friendly_deadline(date_str), from the delta d that days_until returned.
friendly_deadline(d) ==
    IF d = 0 THEN [text |-> "today", n |-> 0]
    ELSE IF d = 1 THEN [text |-> "tomorrow", n |-> 1]
    ELSE IF d > 1 THEN [text |-> "in N days", n |-> d]
    ELSE [text |-> IF -d # 1 THEN "overdue by N days" ELSE "overdue by N day", n |-> -d]

\* now().strftime("%A"): Monday is ordinal 1.
DayNames == <<"Monday", "Tuesday", "Wednesday", "Thursday", "Friday", "Saturday", "Sunday">>

WeekdayName(now) == DayNames[((ToOrdinal(now) + 6) % 7) + 1]

\* now().strftime("%Y-%m-%d")
FormatDate(d) ==
    <<48 + (d.year \div 1000), 48 + ((d.year \div 100) % 10),
      48 + ((d.year \div 10) % 10), 48 + (d.year % 10), 45,
      48 + (d.month \div 10), 48 + (d.month % 10), 45,
      48 + (d.day \div 10), 48 + (d.day % 10)>>

(***************************************************************************)
(* The record stores: one JSON file per store under data/.                 *)
(***************************************************************************)
FileNames ==
    {"schedule.json", "assignments.json", "exams.json", "reminders.json",
     "todos.json", "family_events.json", "errands.json"}

\* The stores of the model: the ones the briefing reads, the grades, the
\* notes, the daily planner, the research history and the profile.
StoreNames ==
    FileNames \cup {"grades.json", "notes.json", "planner.json",
                    "research_history.json", "bookmarks.json",
                    "profile.json"}

\* The program waits at a menu prompt: no handler is running.
Menu == [op |-> "menu"]

\* What a store file can be on disk: absent; complete JSON text holding a list
\* of records; torn, that is the first part only of a JSON text (nothing at
\* all right after open(path, "w")); bytes that are not UTF-8.
Absent == [kind |-> "absent", data |-> <<>>]

Json(data) == [kind |-> "json", data |-> data]

Torn == [kind |-> "torn", data |-> <<>>]

Undecodable == [kind |-> "undecodable", data |-> <<>>]

\* What json.load(f) raises on the open file.
JsonLoadError(file) ==
    CASE file.kind = "json" -> "none"
      [] file.kind = "torn" -> "JSONDecodeError"
      [] file.kind = "undecodable" -> "UnicodeDecodeError"

\* The exceptions load_json's except clause names.
LoadCaught == {"JSONDecodeError", "IOError"}

\* load_json(filename, default): the value it returns, whether that value is
\* the caller's default, or the exception that leaves it.
load_json(file, default) ==
    IF file.kind = "absent" THEN [exc |-> "none", value |-> default, fallback |-> TRUE]
    ELSE IF JsonLoadError(file) = "none"
    THEN [exc |-> "none", value |-> file.data, fallback |-> FALSE]
    ELSE IF JsonLoadError(file) \in LoadCaught
    THEN [exc |-> "none", value |-> default, fallback |-> TRUE]
    ELSE [exc |-> JsonLoadError(file), value |-> default, fallback |-> FALSE]

\* How far a save_json call gets: to its end, or the process is stopped
\* (interrupt, kill, power loss, full disk) once open(path, "w") has emptied
\* the file and before json.dump has written all of the text.
SaveOutcomes == {"written", "stopped"}

\* save_json(filename, data): the file it leaves on disk.
save_json(data, outcome) ==
    IF outcome = "written" THEN Json(data) ELSE Torn

Interrupted == {f \in StoreNames : files[f].kind = "torn"}

RECURSIVE SumLen(_)
SumLen(fs) ==
    IF fs = {} THEN 0
    ELSE LET f == CHOOSE g \in fs : TRUE
         IN  Len(files[f].data) + SumLen(fs \ {f})

\* The bound on the stores a run of the program fills.
Room == SumLen(StoreNames) < MaxTotal

SaveOutcomesNow ==
    IF Cardinality(Interrupted) < MaxInterrupted THEN SaveOutcomes ELSE {"written"}

(***************************************************************************)
(* What the user types, as the character codes of the text.                *)
(***************************************************************************)
TxtEssay == <<69, 115, 115, 97, 121>> \* "Essay"

TxtEssayTyped == <<101, 115, 115, 97, 121>> \* "essay"

TxtQuiz == <<81, 117, 105, 122>> \* "Quiz"

TxtLab == <<76, 97, 98>> \* "Lab"

Date0930 == <<50, 48, 50, 54, 45, 57, 45, 51, 48>> \* "2026-9-30"

Date1004 == <<50, 48, 50, 54, 45, 49, 48, 45, 48, 52>> \* "2026-10-04"

Date1005 == <<50, 48, 50, 54, 45, 49, 48, 45, 48, 53>> \* "2026-10-05"

Date1020 == <<50, 48, 50, 54, 45, 49, 48, 45, 50, 48>> \* "2026-10-20"

Date0926 == <<50, 48, 50, 54, 45, 48, 57, 45, 50, 54>> \* "2026-09-26"

DateSoon == <<115, 111, 111, 110>> \* "soon"

Time0900 == <<48, 57, 58, 48, 48, 32, 65, 77>> \* "09:00 AM"

Time1000 == <<49, 48, 58, 48, 48, 32, 65, 77>> \* "10:00 AM"

Time200 == <<50, 58, 48, 48, 32, 80, 77>> \* "2:00 PM"

\* The days the wall clock shows: Saturday 2026-09-26 and Thursday 2026-10-01.
Todays ==
    {[year |-> 2026, month |-> 9, day |-> 26], [year |-> 2026, month |-> 10, day |-> 1]}

\* Prompt.ask has no check on titles, dates and times: any text is stored.
AssignmentInputs ==
    {[title |-> TxtEssay, due_date |-> Date0930],
     [title |-> TxtQuiz, due_date |-> DateSoon]}

TitleInputs == {TxtEssayTyped, TxtLab}

ExamInputs ==
    {[title |-> "Final", date |-> Date1004],
     [title |-> "Oral", date |-> DateSoon]}

\* Prompt.ask(choices=...) admits the seven day names only.
ClassInputs ==
    {[course |-> "CS101", day |-> "Saturday", time |-> Time0900],
     [course |-> "PHYS110", day |-> "Thursday", time |-> Time1000]}

ReminderInputs ==
    {[text |-> "Call home", date |-> Date0926, repeat |-> "Once"],
     [text |-> "Renew pass", date |-> DateSoon, repeat |-> "Daily"]}

TodoInputs ==
    {[task |-> "Laundry", priority |-> "High"],
     [task |-> "Email", priority |-> "Medium"]}

EventInputs ==
    {[title |-> "Family dinner", date |-> Date1004],
     [title |-> "Reunion", date |-> DateSoon]}

ErrandInputs == {"Pharmacy"}

\* The quotes random_quote() is seen to draw: the first and the last of QUOTES.
QuoteChoices == {1, 20}

(***************************************************************************)
(* Records: a field is present or absent; a.get(k) of an absent field is   *)
(* None, a[k] raises KeyError.                                             *)
(***************************************************************************)
Has(r, k) == k \in DOMAIN r

\* not r.get("done")
NotDone(r) == ~Has(r, "done") \/ r.done = FALSE

\* Indices of s, in order, as Python's for loop visits them.
Indices(s) == 1..Len(s)

FirstSuch(S) == CHOOSE i \in S : \A j \in S : i <= j

(***************************************************************************)
(* Student manager.                                                        *)
(* Fields a modelled handler never reads (id, notes, created, location,    *)
(* professor, category) are left out of the records.                       *)
(***************************************************************************)
\* view_assignments(): the exception it raises, if any.  It sorts by
\* (done, due_date), then prints the rows in that order, each with
\* friendly_deadline of its due date, its course and its title.
view_assignments_exc(assignments) ==
    LET DoneDueKey(a) == <<IF NotDone(a) THEN 0 ELSE 1>> \o a.due_date
        rows == SortByKey(assignments, DoneDueKey)
        RowExc(a) ==
            IF BadDate(a.due_date) THEN "ValueError"
            ELSE IF ~Has(a, "course") \/ ~Has(a, "title") THEN "KeyError"
            ELSE "none"
        failing == {i \in Indices(rows) : RowExc(rows[i]) # "none"}
    IN  IF \E i \in Indices(assignments) : ~Has(assignments[i], "due_date") THEN "KeyError"
        ELSE IF failing # {} THEN RowExc(rows[FirstSuch(failing)])
        ELSE "none"

add_assignment ==
    \E input \in AssignmentInputs, outcome \in SaveOutcomesNow :
        LET loaded == load_json(files["assignments.json"], <<>>)
            assignments ==
                Append(loaded.value,
                       [title |-> input.title, course |-> "CS101",
                        due_date |-> input.due_date, done |-> FALSE])
        IN  /\ Room
            /\ IF loaded.exc # "none"
               THEN /\ UNCHANGED files
                    /\ out' = [op |-> "add_assignment", exc |-> loaded.exc]
               ELSE /\ files' = [files EXCEPT
                                    !["assignments.json"] = save_json(assignments, outcome)]
                    /\ out' = [op |-> "add_assignment",
                               exc |-> IF outcome # "written" THEN "stopped"
                                       ELSE IF BadDate(input.due_date) THEN "ValueError"
                                       ELSE "none"]
            /\ UNCHANGED <<today, pc>>

complete_assignment ==
    \E title \in TitleInputs, outcome \in SaveOutcomesNow :
        LET loaded == load_json(files["assignments.json"], <<>>)
            assignments == loaded.value
            pending == SelectSeq(assignments, NotDone)
            shown == load_json(files["assignments.json"], <<>>).value
            \* the loop stops at the first record without a title (KeyError) or
            \* the first pending record with the title typed
            stops == {i \in Indices(assignments) :
                        \/ ~Has(assignments[i], "title")
                        \/ /\ Lower(assignments[i].title) = Lower(title)
                           /\ NotDone(assignments[i])}
            hit == FirstSuch(stops)
            exc ==
                IF loaded.exc # "none" THEN loaded.exc
                ELSE IF pending = <<>> THEN "none"
                ELSE IF view_assignments_exc(shown) # "none"
                THEN view_assignments_exc(shown)
                ELSE IF stops # {} /\ ~Has(assignments[hit], "title") THEN "KeyError"
                ELSE "none"
            found == exc = "none" /\ pending # <<>> /\ stops # {}
        IN  /\ IF found
               THEN files' = [files EXCEPT !["assignments.json"] =
                                save_json([assignments EXCEPT ![hit] =
                                              [k \in DOMAIN @ \cup {"done", "completed_date"} |->
                                                  IF k = "done" THEN TRUE
                                                  ELSE IF k = "completed_date"
                                                  THEN FormatDate(today)
                                                  ELSE @[k]]],
                                          outcome)]
               ELSE /\ outcome = "written"
                    /\ UNCHANGED files
            /\ out' = [op |-> "complete_assignment",
                       exc |-> IF found /\ outcome # "written" THEN "stopped" ELSE exc,
                       title |-> title, found |-> found,
                       said |-> IF (found /\ outcome # "written") \/ exc # "none" THEN "raised"
                                ELSE IF pending = <<>> THEN "nothing to do"
                                ELSE IF found THEN "done"
                                ELSE "no match"]
            /\ UNCHANGED <<today, pc>>

\* upcoming_deadlines(limit): the list it returns, or the exception.
upcoming_deadlines ==
    \E limit \in {5} :
        LET loaded == load_json(files["assignments.json"], <<>>)
            pending == SelectSeq(loaded.value, NotDone)
            DueKey(a) == a.due_date
            exc == IF loaded.exc # "none" THEN loaded.exc
                   ELSE IF \E i \in Indices(pending) : ~Has(pending[i], "due_date")
                   THEN "KeyError"
                   ELSE "none"
        IN  /\ out' = [op |-> "upcoming_deadlines", exc |-> exc,
                       rows |-> IF exc = "none" THEN Take(SortByKey(pending, DueKey), limit)
                                ELSE <<>>]
            /\ UNCHANGED <<files, today, pc>>

add_exam ==
    \E input \in ExamInputs, outcome \in SaveOutcomesNow :
        LET loaded == load_json(files["exams.json"], <<>>)
            exams == Append(loaded.value,
                            [title |-> input.title, course |-> "CS101", date |-> input.date])
        IN  /\ Room
            /\ IF loaded.exc # "none"
               THEN /\ UNCHANGED files
                    /\ out' = [op |-> "add_exam", exc |-> loaded.exc]
               ELSE /\ files' = [files EXCEPT !["exams.json"] = save_json(exams, outcome)]
                    /\ out' = [op |-> "add_exam",
                               exc |-> IF outcome # "written" THEN "stopped"
                                       ELSE IF BadDate(input.date) THEN "ValueError"
                                       ELSE "none"]
            /\ UNCHANGED <<today, pc>>

\* upcoming_exams(limit): the list it returns, or the exception.
upcoming_exams ==
    \E limit \in {3} :
        LET loaded == load_json(files["exams.json"], <<>>)
            exams == loaded.value
            FilterExc(e) ==
                IF ~Has(e, "date") THEN "KeyError"
                ELSE IF BadDate(e.date) THEN "ValueError"
                ELSE "none"
            failing == {i \in Indices(exams) : FilterExc(exams[i]) # "none"}
            IsFuture(e) == days_until(e.date, today) >= 0
            DateKey(e) == e.date
            exc == IF loaded.exc # "none" THEN loaded.exc
                   ELSE IF failing # {} THEN FilterExc(exams[FirstSuch(failing)])
                   ELSE "none"
        IN  /\ out' = [op |-> "upcoming_exams", exc |-> exc,
                       rows |-> IF exc = "none"
                                THEN Take(SortByKey(SelectSeq(exams, IsFuture), DateKey), limit)
                                ELSE <<>>]
            /\ UNCHANGED <<files, today, pc>>

add_class ==
    \E input \in ClassInputs, outcome \in SaveOutcomesNow :
        LET loaded == load_json(files["schedule.json"], <<>>)
            schedule == Append(loaded.value,
                               [course |-> input.course, day |-> input.day,
                                time |-> input.time, room |-> "TBD"])
        IN  /\ Room
            /\ IF loaded.exc # "none"
               THEN /\ UNCHANGED files
                    /\ out' = [op |-> "add_class", exc |-> loaded.exc]
               ELSE /\ files' = [files EXCEPT !["schedule.json"] = save_json(schedule, outcome)]
                    /\ out' = [op |-> "add_class",
                               exc |-> IF outcome # "written" THEN "stopped" ELSE "none"]
            /\ UNCHANGED <<today, pc>>

(***************************************************************************)
(* Personal secretary and family helper: the add actions.                  *)
(***************************************************************************)
add_todo ==
    \E input \in TodoInputs, outcome \in SaveOutcomesNow :
        LET loaded == load_json(files["todos.json"], <<>>)
            todos == Append(loaded.value,
                            [task |-> input.task, priority |-> input.priority, done |-> FALSE])
        IN  /\ Room
            /\ IF loaded.exc # "none"
               THEN /\ UNCHANGED files
                    /\ out' = [op |-> "add_todo", exc |-> loaded.exc]
               ELSE /\ files' = [files EXCEPT !["todos.json"] = save_json(todos, outcome)]
                    /\ out' = [op |-> "add_todo",
                               exc |-> IF outcome # "written" THEN "stopped" ELSE "none"]
            /\ UNCHANGED <<today, pc>>

add_reminder ==
    \E input \in ReminderInputs, outcome \in SaveOutcomesNow :
        LET loaded == load_json(files["reminders.json"], <<>>)
            reminders == Append(loaded.value,
                                [text |-> input.text, date |-> input.date,
                                 repeat |-> input.repeat])
        IN  /\ Room
            /\ IF loaded.exc # "none"
               THEN /\ UNCHANGED files
                    /\ out' = [op |-> "add_reminder", exc |-> loaded.exc]
               ELSE /\ files' = [files EXCEPT !["reminders.json"] = save_json(reminders, outcome)]
                    /\ out' = [op |-> "add_reminder",
                               exc |-> IF outcome # "written" THEN "stopped"
                                       ELSE IF BadDate(input.date) THEN "ValueError"
                                       ELSE "none"]
            /\ UNCHANGED <<today, pc>>

add_event ==
    \E input \in EventInputs, outcome \in SaveOutcomesNow :
        LET loaded == load_json(files["family_events.json"], <<>>)
            events == Append(loaded.value, [title |-> input.title, date |-> input.date])
        IN  /\ Room
            /\ IF loaded.exc # "none"
               THEN /\ UNCHANGED files
                    /\ out' = [op |-> "add_event", exc |-> loaded.exc]
               ELSE /\ files' = [files EXCEPT !["family_events.json"] = save_json(events, outcome)]
                    /\ out' = [op |-> "add_event",
                               exc |-> IF outcome # "written" THEN "stopped"
                                       ELSE IF BadDate(input.date) THEN "ValueError"
                                       ELSE "none"]
            /\ UNCHANGED <<today, pc>>

add_errand ==
    \E task \in ErrandInputs, outcome \in SaveOutcomesNow :
        LET loaded == load_json(files["errands.json"], <<>>)
            errands == Append(loaded.value, [task |-> task, done |-> FALSE])
        IN  /\ Room
            /\ IF loaded.exc # "none"
               THEN /\ UNCHANGED files
                    /\ out' = [op |-> "add_errand", exc |-> loaded.exc]
               ELSE /\ files' = [files EXCEPT !["errands.json"] = save_json(errands, outcome)]
                    /\ out' = [op |-> "add_errand",
                               exc |-> IF outcome # "written" THEN "stopped" ELSE "none"]
            /\ UNCHANGED <<today, pc>>

(***************************************************************************)
(* The daily briefing.  Every section reads its store, builds its list and *)
(* prints it; an exception raised anywhere leaves morning_briefing, which  *)
(* catches none.  A section is                                             *)
(*   exc   the exception raised while it was being built or printed,       *)
(*   mode  the heading or message it printed ("none": nothing yet,         *)
(*         "nothing": the section prints nothing for an empty list),       *)
(*   rows  the rows printed, count the number printed in a count message.  *)
(***************************************************************************)
Raised(exc) == [exc |-> exc, mode |-> "none", rows |-> <<>>, count |-> 0]

Message(mode, count) == [exc |-> "none", mode |-> mode, rows |-> <<>>, count |-> count]

NotReached == [exc |-> "none", mode |-> "not reached", rows |-> <<>>, count |-> 0]

\* A heading, then a loop that prints one row per item; the loop ends at the
\* first item whose row raises.
Listing(mode, items, RowExc(_), Row(_)) ==
    LET failing == {i \in Indices(items) : RowExc(items[i]) # "none"}
        n == IF failing = {} THEN Len(items) ELSE FirstSuch(failing) - 1
    IN  [exc |-> IF failing = {} THEN "none" ELSE RowExc(items[FirstSuch(failing)]),
         mode |-> mode,
         rows |-> [i \in 1..n |-> Row(items[i])],
         count |-> 0]

\* classes_section without the sort by time.
classes_section_unsorted(loaded, now) ==
    LET schedule == loaded.value
        IsToday(c) == c.day = WeekdayName(now)
        TimeKey(c) == c.time
        RowExc(c) == IF Has(c, "course") THEN "none" ELSE "KeyError"
        Row(c) == [item |-> c]
    IN  IF loaded.exc # "none" THEN Raised(loaded.exc)
        ELSE IF \E i \in Indices(schedule) : ~Has(schedule[i], "day") THEN Raised("KeyError")
        ELSE LET todays_classes == SelectSeq(schedule, IsToday)
             IN  IF \E i \in Indices(todays_classes) : ~Has(todays_classes[i], "time")
                 THEN Raised("KeyError")
                 ELSE IF todays_classes # <<>>
                 THEN Listing("classes", todays_classes, RowExc, Row)
                 ELSE Message("free day", 0)

\* Today's classes.
classes_section(loaded, now) ==
    LET schedule == loaded.value
        IsToday(c) == c.day = WeekdayName(now)
        TimeKey(c) == c.time
        RowExc(c) == IF Has(c, "course") THEN "none" ELSE "KeyError"
        Row(c) == [item |-> c]
    IN  IF loaded.exc # "none" THEN Raised(loaded.exc)
        ELSE IF \E i \in Indices(schedule) : ~Has(schedule[i], "day") THEN Raised("KeyError")
        ELSE LET todays_classes == SelectSeq(schedule, IsToday)
             IN  IF \E i \in Indices(todays_classes) : ~Has(todays_classes[i], "time")
                 THEN Raised("KeyError")
                 ELSE IF todays_classes # <<>>
                 THEN Listing("classes", SortByKey(todays_classes, TimeKey), RowExc, Row)
                 ELSE Message("free day", 0)

\* deadlines_section with "< 3" for "<= 3" in the urgent filter.
deadlines_section_under_three(loaded, now) ==
    LET assignments == loaded.value
        unsorted == SelectSeq(assignments, NotDone)
        DueKey(a) == a.due_date
        IsUrgent(a) == days_until(a.due_date, now) < 3
        RowExc(a) == IF Has(a, "title") /\ Has(a, "course") THEN "none" ELSE "KeyError"
        Row(a) == [item |-> a, deadline |-> friendly_deadline(days_until(a.due_date, now))]
    IN  IF loaded.exc # "none" THEN Raised(loaded.exc)
        ELSE IF \E i \in Indices(unsorted) : ~Has(unsorted[i], "due_date")
        THEN Raised("KeyError")
        ELSE LET pending_assignments == SortByKey(unsorted, DueKey)
             IN  IF \E i \in Indices(pending_assignments) :
                        BadDate(pending_assignments[i].due_date)
                 THEN Raised("ValueError")
                 ELSE LET urgent == SelectSeq(pending_assignments, IsUrgent)
                      IN  IF urgent # <<>> THEN Listing("urgent", urgent, RowExc, Row)
                          ELSE IF pending_assignments # <<>>
                          THEN Listing("upcoming", Take(pending_assignments, 3), RowExc, Row)
                          ELSE Message("caught up", 0)

\* Upcoming deadlines.
deadlines_section(loaded, now) ==
    LET assignments == loaded.value
        unsorted == SelectSeq(assignments, NotDone)
        DueKey(a) == a.due_date
        IsUrgent(a) == days_until(a.due_date, now) <= 3
        RowExc(a) == IF Has(a, "title") /\ Has(a, "course") THEN "none" ELSE "KeyError"
        Row(a) == [item |-> a, deadline |-> friendly_deadline(days_until(a.due_date, now))]
    IN  IF loaded.exc # "none" THEN Raised(loaded.exc)
        ELSE IF \E i \in Indices(unsorted) : ~Has(unsorted[i], "due_date")
        THEN Raised("KeyError")
        ELSE LET pending_assignments == SortByKey(unsorted, DueKey)
             IN  IF \E i \in Indices(pending_assignments) :
                        BadDate(pending_assignments[i].due_date)
                 THEN Raised("ValueError")
                 ELSE LET urgent == SelectSeq(pending_assignments, IsUrgent)
                      IN  IF urgent # <<>> THEN Listing("urgent", urgent, RowExc, Row)
                          ELSE IF pending_assignments # <<>>
                          THEN Listing("upcoming", Take(pending_assignments, 3), RowExc, Row)
                          ELSE Message("caught up", 0)

\* The markup morning_briefing puts around an exam that is d days away.
briefing_exam_urgency(d) ==
    IF d <= 3 THEN "bold red" ELSE IF d <= 7 THEN "yellow" ELSE "plain"

\* Upcoming exams.
exams_section(loaded, now) ==
    LET exams == loaded.value
        FilterExc(e) ==
            IF ~Has(e, "date") THEN "KeyError"
            ELSE IF BadDate(e.date) THEN "ValueError"
            ELSE "none"
        failing == {i \in Indices(exams) : FilterExc(exams[i]) # "none"}
        IsUpcoming(e) == days_until(e.date, now) >= 0
        DateKey(e) == e.date
        RowExc(e) == IF Has(e, "title") /\ Has(e, "course") THEN "none" ELSE "KeyError"
        Row(e) == [item |-> e,
                   urgency |-> briefing_exam_urgency(days_until(e.date, now)),
                   deadline |-> friendly_deadline(days_until(e.date, now))]
    IN  IF loaded.exc # "none" THEN Raised(loaded.exc)
        ELSE IF failing # {} THEN Raised(FilterExc(exams[FirstSuch(failing)]))
        ELSE LET upcoming == SortByKey(SelectSeq(exams, IsUpcoming), DateKey)
             IN  IF upcoming # <<>> THEN Listing("exams", Take(upcoming, 3), RowExc, Row)
                 ELSE Message("nothing", 0)

\* reminders_section with a Daily reminder taken as due every day.
reminders_section_repeating(loaded, now) ==
    LET reminders == loaded.value
        IsToday(r) == (Has(r, "date") /\ r.date = FormatDate(now))
                      \/ (Has(r, "repeat") /\ r.repeat = "Daily")
        todays_reminders == SelectSeq(reminders, IsToday)
        RowExc(r) == IF Has(r, "text") THEN "none" ELSE "KeyError"
        Row(r) == [item |-> r]
    IN  IF loaded.exc # "none" THEN Raised(loaded.exc)
        ELSE IF todays_reminders # <<>>
        THEN Listing("reminders", todays_reminders, RowExc, Row)
        ELSE Message("nothing", 0)

\* Today's reminders.
reminders_section(loaded, now) ==
    LET reminders == loaded.value
        IsToday(r) == Has(r, "date") /\ r.date = FormatDate(now)
        todays_reminders == SelectSeq(reminders, IsToday)
        RowExc(r) == IF Has(r, "text") THEN "none" ELSE "KeyError"
        Row(r) == [item |-> r]
    IN  IF loaded.exc # "none" THEN Raised(loaded.exc)
        ELSE IF todays_reminders # <<>>
        THEN Listing("reminders", todays_reminders, RowExc, Row)
        ELSE Message("nothing", 0)

\* todos_section with the done to-dos counted too.
todos_section_counting_done(loaded) ==
    LET todos == loaded.value
        pending_todos == SelectSeq(todos, NotDone)
        IsHigh(t) == Has(t, "priority") /\ t.priority = "High"
        high_priority == SelectSeq(pending_todos, IsHigh)
        RowExc(t) == IF Has(t, "task") THEN "none" ELSE "KeyError"
        Row(t) == [item |-> t]
    IN  IF loaded.exc # "none" THEN Raised(loaded.exc)
        ELSE IF high_priority # <<>>
        THEN Listing("high priority", Take(high_priority, 3), RowExc, Row)
        ELSE IF pending_todos # <<>> THEN Message("count", Len(todos))
        ELSE Message("nothing", 0)

\* Pending to-dos.
todos_section(loaded) ==
    LET todos == loaded.value
        pending_todos == SelectSeq(todos, NotDone)
        IsHigh(t) == Has(t, "priority") /\ t.priority = "High"
        high_priority == SelectSeq(pending_todos, IsHigh)
        RowExc(t) == IF Has(t, "task") THEN "none" ELSE "KeyError"
        Row(t) == [item |-> t]
    IN  IF loaded.exc # "none" THEN Raised(loaded.exc)
        ELSE IF high_priority # <<>>
        THEN Listing("high priority", Take(high_priority, 3), RowExc, Row)
        ELSE IF pending_todos # <<>> THEN Message("count", Len(pending_todos))
        ELSE Message("nothing", 0)

Date19000101 == <<49, 57, 48, 48, 45, 48, 49, 45, 48, 49>> \* "1900-01-01"

\* events_section with "< 14" for "<= 14".
events_section_under_fourteen(loaded, now) ==
    LET events == loaded.value
        DateOf(e) == IF Has(e, "date") THEN e.date ELSE Date19000101
        IsSoon(e) == days_until(DateOf(e), now) >= 0 /\ days_until(DateOf(e), now) < 14
        RowExc(e) == IF Has(e, "title") THEN "none" ELSE "KeyError"
        Row(e) == [item |-> e, deadline |-> friendly_deadline(days_until(e.date, now))]
    IN  IF loaded.exc # "none" THEN Raised(loaded.exc)
        ELSE IF \E i \in Indices(events) : BadDate(DateOf(events[i])) THEN Raised("ValueError")
        ELSE LET upcoming_events == SelectSeq(events, IsSoon)
             IN  IF upcoming_events # <<>>
                 THEN Listing("events", upcoming_events, RowExc, Row)
                 ELSE Message("nothing", 0)

\* Family events coming up.
events_section(loaded, now) ==
    LET events == loaded.value
        DateOf(e) == IF Has(e, "date") THEN e.date ELSE Date19000101
        IsSoon(e) == days_until(DateOf(e), now) >= 0 /\ days_until(DateOf(e), now) <= 14
        RowExc(e) == IF Has(e, "title") THEN "none" ELSE "KeyError"
        Row(e) == [item |-> e, deadline |-> friendly_deadline(days_until(e.date, now))]
    IN  IF loaded.exc # "none" THEN Raised(loaded.exc)
        ELSE IF \E i \in Indices(events) : BadDate(DateOf(events[i])) THEN Raised("ValueError")
        ELSE LET upcoming_events == SelectSeq(events, IsSoon)
             IN  IF upcoming_events # <<>>
                 THEN Listing("events", upcoming_events, RowExc, Row)
                 ELSE Message("nothing", 0)

\* Errands.
errands_section(loaded) ==
    LET pending_errands == SelectSeq(loaded.value, NotDone)
    IN  IF loaded.exc # "none" THEN Raised(loaded.exc)
        ELSE IF pending_errands # <<>> THEN Message("count", Len(pending_errands))
        ELSE Message("nothing", 0)

SectionNames ==
    <<"classes", "deadlines", "exams", "reminders", "todos", "events", "errands">>

\* The sections in the order morning_briefing builds them, each as it comes
\* out when the briefing gets to it.
Sections(fs, now) ==
    <<classes_section(load_json(fs["schedule.json"], <<>>), now),
      deadlines_section(load_json(fs["assignments.json"], <<>>), now),
      exams_section(load_json(fs["exams.json"], <<>>), now),
      reminders_section(load_json(fs["reminders.json"], <<>>), now),
      todos_section(load_json(fs["todos.json"], <<>>)),
      events_section(load_json(fs["family_events.json"], <<>>), now),
      errands_section(load_json(fs["errands.json"], <<>>))>>

\* Briefing with the errands line left out unless the first quote is drawn.
Briefing_by_quote(fs, now, quote) ==
    LET built == Sections(fs, now)
        failing == {n \in 1..7 : built[n].exc # "none"}
        stop == IF failing = {} THEN 8 ELSE FirstSuch(failing)
        Shown(n) == IF n <= stop THEN built[n] ELSE NotReached
    IN  [op |-> "morning_briefing",
         exc |-> IF stop = 8 THEN "none" ELSE built[stop].exc,
         classes |-> Shown(1), deadlines |-> Shown(2), exams |-> Shown(3),
         reminders |-> Shown(4), todos |-> Shown(5), events |-> Shown(6),
         errands |-> IF quote = 1 THEN Shown(7) ELSE Message("nothing", 0),
         quote |-> IF stop = 8 THEN quote ELSE 0]

\* morning_briefing(): the sections up to the first that raises, then the
\* quote.  quote = 0: the quote was not reached.
Briefing(fs, now, quote) ==
    LET built == Sections(fs, now)
        failing == {n \in 1..7 : built[n].exc # "none"}
        stop == IF failing = {} THEN 8 ELSE FirstSuch(failing)
        Shown(n) == IF n <= stop THEN built[n] ELSE NotReached
    IN  [op |-> "morning_briefing",
         exc |-> IF stop = 8 THEN "none" ELSE built[stop].exc,
         classes |-> Shown(1), deadlines |-> Shown(2), exams |-> Shown(3),
         reminders |-> Shown(4), todos |-> Shown(5), events |-> Shown(6),
         errands |-> Shown(7),
         quote |-> IF stop = 8 THEN quote ELSE 0]

\* morning_briefing that saves the pending assignments as it has sorted them.
morning_briefing_saving ==
    \E quote \in QuoteChoices :
        LET loaded == load_json(files["assignments.json"], <<>>)
            DueKey(a) == a.due_date
        IN  /\ out' = Briefing(files, today, quote)
            /\ files' = IF out'.exc = "none" /\ files["assignments.json"].kind = "json"
                        THEN [files EXCEPT !["assignments.json"] =
                                Json(SortByKey(SelectSeq(loaded.value, NotDone), DueKey))]
                        ELSE files
            /\ UNCHANGED <<today, pc>>

morning_briefing ==
    \E quote \in QuoteChoices :
        /\ out' = Briefing(files, today, quote)
        /\ UNCHANGED <<files, today, pc>>

(***************************************************************************)
(* The to-do list: view, complete, delete.                                 *)
(***************************************************************************)
\* priority_order with a priority outside the table ranked last.
priority_order_other_last(t) ==
    IF ~Has(t, "priority") THEN 1
    ELSE CASE t.priority = "High" -> 0
           [] t.priority = "Medium" -> 1
           [] t.priority = "Low" -> 2
           [] OTHER -> 3

\* priority_order.get(t.get("priority", "Medium"), 1)
priority_order(t) ==
    IF ~Has(t, "priority") THEN 1
    ELSE CASE t.priority = "High" -> 0
           [] t.priority = "Medium" -> 1
           [] t.priority = "Low" -> 2
           [] OTHER -> 1

\* view_todos(): the rows of the table it prints, in order; the table is
\* printed once every row is built, so none shows when a row raises.
view_todos_table(loaded) ==
    LET DoneRankKey(t) == <<IF NotDone(t) THEN 0 ELSE 1, priority_order(t)>>
        todos == SortByKey(loaded.value, DoneRankKey)
        HasDue(t) == Has(t, "due_date") /\ t.due_date # <<>>
        RowExc(t) ==
            IF HasDue(t) /\ BadDate(t.due_date) THEN "ValueError"
            ELSE IF ~Has(t, "task") THEN "KeyError"
            ELSE "none"
        failing == {i \in Indices(todos) : RowExc(todos[i]) # "none"}
        exc == IF loaded.exc # "none" THEN loaded.exc
               ELSE IF failing # {} THEN RowExc(todos[FirstSuch(failing)])
               ELSE "none"
    IN  [exc |-> exc, rows |-> IF exc = "none" THEN todos ELSE <<>>]

view_todos ==
    LET table == view_todos_table(load_json(files["todos.json"], <<>>))
    IN  /\ out' = [op |-> "view_todos", exc |-> table.exc, rows |-> table.rows]
        /\ UNCHANGED <<files, today, pc>>

\* The numbers typed at an IntPrompt.
NumberInputs == {0, 1, 2, 3}

\* complete_todo(): the list is shown by view_todos, the number typed counts
\* into the list as loaded.
complete_todo ==
    \E number \in NumberInputs, outcome \in SaveOutcomesNow :
        LET loaded == load_json(files["todos.json"], <<>>)
            todos == loaded.value
            pending == SelectSeq(todos, NotDone)
            table == view_todos_table(load_json(files["todos.json"], <<>>))
            idx == number - 1
            exc == IF loaded.exc # "none" THEN loaded.exc
                   ELSE IF pending = <<>> THEN "none"
                   ELSE table.exc
            valid == exc = "none" /\ pending # <<>> /\ 0 <= idx /\ idx < Len(todos)
        IN  /\ IF valid
               THEN files' = [files EXCEPT !["todos.json"] =
                                save_json([todos EXCEPT ![idx + 1] =
                                              [k \in DOMAIN @ \cup {"done", "completed_date"} |->
                                                  IF k = "done" THEN TRUE
                                                  ELSE IF k = "completed_date"
                                                  THEN FormatDate(today)
                                                  ELSE @[k]]],
                                          outcome)]
               ELSE /\ outcome = "written"
                    /\ UNCHANGED files
            /\ out' = [op |-> "complete_todo",
                       exc |-> IF valid /\ outcome # "written" THEN "stopped" ELSE exc,
                       number |-> number, found |-> valid,
                       said |-> IF (valid /\ outcome # "written") \/ exc # "none" THEN "raised"
                                ELSE IF pending = <<>> THEN "nothing to do"
                                ELSE IF valid THEN "done"
                                ELSE "no match"]
            /\ UNCHANGED <<today, pc>>

\* delete_todo()
delete_todo ==
    \E number \in NumberInputs, outcome \in SaveOutcomesNow :
        LET loaded == load_json(files["todos.json"], <<>>)
            todos == loaded.value
            table == view_todos_table(load_json(files["todos.json"], <<>>))
            idx == number - 1
            exc == IF loaded.exc # "none" THEN loaded.exc
                   ELSE IF todos = <<>> THEN "none"
                   ELSE table.exc
            valid == exc = "none" /\ 0 <= idx /\ idx < Len(todos)
            kept == [i \in 1..(Len(todos) - 1) |-> IF i <= idx THEN todos[i] ELSE todos[i + 1]]
        IN  /\ IF valid
               THEN files' = [files EXCEPT !["todos.json"] = save_json(kept, outcome)]
               ELSE /\ outcome = "written"
                    /\ UNCHANGED files
            /\ out' = [op |-> "delete_todo",
                       exc |-> IF valid /\ outcome # "written" THEN "stopped"
                               ELSE IF valid /\ ~Has(todos[idx + 1], "task") THEN "KeyError"
                               ELSE exc,
                       number |-> number, found |-> valid,
                       said |-> IF \/ valid /\ outcome # "written"
                                   \/ valid /\ ~Has(todos[idx + 1], "task")
                                   \/ exc # "none"
                                THEN "raised"
                                ELSE IF todos = <<>> THEN "nothing to do"
                                ELSE IF valid THEN "done"
                                ELSE "no match"]
            /\ UNCHANGED <<today, pc>>

(***************************************************************************)
(* Grades.  A letter grade is the character codes of its text; grade       *)
(* points are in tenths.                                                   *)
(***************************************************************************)
\* str.upper()
Upper(s) == [i \in 1..Len(s) |-> IF s[i] >= 97 /\ s[i] <= 122 THEN s[i] - 32 ELSE s[i]]

GradeA == <<65>> \* "A"

GradeBPlusTyped == <<98, 43>> \* "b+"

GradeZ == <<90>> \* "Z"

GradeF == <<70>> \* "F"

\* GPA_SCALE.get(letter, 0), in tenths of a point.
GPA_SCALE(letter) ==
    CASE letter \in {<<65, 43>>, <<65>>} -> 40
      [] letter = <<65, 45>> -> 37
      [] letter = <<66, 43>> -> 33
      [] letter = <<66>> -> 30
      [] letter = <<66, 45>> -> 27
      [] letter = <<67, 43>> -> 23
      [] letter = <<67>> -> 20
      [] letter = <<67, 45>> -> 17
      [] letter = <<68, 43>> -> 13
      [] letter = <<68>> -> 10
      [] letter = <<68, 45>> -> 7
      [] letter = <<70>> -> 0
      [] OTHER -> 0

\* IntPrompt.ask admits every integer as the credit hours.
GradeInputs ==
    {[grade |-> GradeBPlusTyped, credits |-> 3],
     [grade |-> GradeZ, credits |-> 3],
     [grade |-> GradeA, credits |-> -3],
     [grade |-> GradeA, credits |-> 4],
     [grade |-> GradeF, credits |-> 0]}

add_grade ==
    \E input \in GradeInputs, outcome \in SaveOutcomesNow :
        LET loaded == load_json(files["grades.json"], <<>>)
            grades == Append(loaded.value,
                             [course |-> "CS101", grade |-> Upper(input.grade),
                              credits |-> input.credits])
        IN  /\ Room
            /\ IF loaded.exc # "none"
               THEN /\ UNCHANGED files
                    /\ out' = [op |-> "add_grade", exc |-> loaded.exc]
               ELSE /\ files' = [files EXCEPT !["grades.json"] = save_json(grades, outcome)]
                    /\ out' = [op |-> "add_grade",
                               exc |-> IF outcome # "written" THEN "stopped" ELSE "none"]
            /\ UNCHANGED <<today, pc>>

RECURSIVE SumOver(_, _)
SumOver(s, i) == IF i > Len(s) THEN 0 ELSE s[i] + SumOver(s, i + 1)

\* total_points / total_credits if total_credits > 0 else 0.0, as the
\* fraction num / den of tenths of a point.
Gpa(grades) ==
    LET total_points ==
            SumOver([i \in 1..Len(grades) |->
                        GPA_SCALE(Upper(grades[i].grade)) * grades[i].credits], 1)
        total_credits == SumOver([i \in 1..Len(grades) |-> grades[i].credits], 1)
    IN  IF grades = <<>> THEN [num |-> 0, den |-> 1]
        ELSE IF total_credits > 0 THEN [num |-> total_points, den |-> total_credits]
        ELSE [num |-> 0, den |-> 1]

GradeExc(loaded) ==
    IF loaded.exc # "none" THEN loaded.exc
    ELSE IF \E i \in Indices(loaded.value) :
                ~Has(loaded.value[i], "grade") \/ ~Has(loaded.value[i], "credits")
    THEN "KeyError"
    ELSE "none"

\* calculate_gpa(): the value it returns.
calculate_gpa ==
    LET loaded == load_json(files["grades.json"], <<>>)
        exc == GradeExc(loaded)
    IN  /\ out' = [op |-> "calculate_gpa", exc |-> exc,
                   gpa |-> IF exc = "none" THEN Gpa(loaded.value) ELSE [num |-> 0, den |-> 1]]
        /\ UNCHANGED <<files, today, pc>>

\* quick_stats(): the numbers of the panel it prints.  The notes count and
\* the nickname of the title come from stores no modelled handler writes.
quick_stats ==
    LET Load(f) == load_json(files[f], <<>>)
        order == <<"schedule.json", "assignments.json", "todos.json", "exams.json",
                   "errands.json", "grades.json">>
        failing == {i \in 1..Len(order) : Load(order[i]).exc # "none"}
        IsDone(r) == ~NotDone(r)
        exc == IF failing # {} THEN Load(order[FirstSuch(failing)]).exc
               ELSE GradeExc(Load("grades.json"))
    IN  /\ out' = IF exc # "none" THEN [op |-> "quick_stats", exc |-> exc]
                  ELSE [op |-> "quick_stats", exc |-> "none",
                        classes |-> Len(Load("schedule.json").value),
                        pending_assignments |->
                            Len(SelectSeq(Load("assignments.json").value, NotDone)),
                        done_assignments |->
                            Len(SelectSeq(Load("assignments.json").value, IsDone)),
                        pending_todos |-> Len(SelectSeq(Load("todos.json").value, NotDone)),
                        done_todos |-> Len(SelectSeq(Load("todos.json").value, IsDone)),
                        exams |-> Len(Load("exams.json").value),
                        pending_errands |->
                            Len(SelectSeq(Load("errands.json").value, NotDone)),
                        gpa |-> Gpa(Load("grades.json").value)]
        /\ UNCHANGED <<files, today, pc>>

(***************************************************************************)
(* The whole program, from a fresh data/ directory.                        *)
(***************************************************************************)
Init ==
    /\ files = [f \in StoreNames |-> Absent]
    /\ today \in Todays
    /\ out = [op |-> "start", exc |-> "none"]
    /\ pc = Menu

Next ==
    \/ add_class
    \/ add_assignment
    \/ complete_assignment
    \/ add_exam
    \/ add_reminder
    \/ add_todo
    \/ add_event
    \/ add_errand
    \/ quick_stats
    \/ morning_briefing

Spec == Init /\ [][Next]_vars

(***************************************************************************)
(* The grade book, from a fresh data/ directory.                           *)
(***************************************************************************)
NextGrades ==
    \/ add_grade
    \/ calculate_gpa
    \/ quick_stats

SpecGrades == Init /\ [][NextGrades]_vars

(***************************************************************************)
(* One store filled with up to MaxRecords records, the others absent.      *)
(***************************************************************************)
SeqsUpTo(S, n) == UNION {[1..k -> S] : k \in 0..n}

AssignmentRecords ==
    {[title |-> i.title, course |-> "CS101", due_date |-> i.due_date, done |-> d] :
        i \in {[title |-> TxtEssay, due_date |-> Date0930],
               [title |-> TxtQuiz, due_date |-> Date1004],
               [title |-> TxtLab, due_date |-> Date1005]},
        d \in BOOLEAN}

ExamRecords ==
    {[title |-> "Final", course |-> "CS101", date |-> Date0930],
     [title |-> "Midterm", course |-> "CS101", date |-> Date1004],
     [title |-> "Mock", course |-> "CS101", date |-> Date1005]}

StoreRecords(f) ==
    CASE f = "assignments.json" -> AssignmentRecords
      [] f = "exams.json" -> ExamRecords

InitStore ==
    /\ \E f \in {"assignments.json", "exams.json"} :
        \E s \in SeqsUpTo(StoreRecords(f), MaxRecords) :
            files = [g \in StoreNames |-> IF g = f THEN Json(s) ELSE Absent]
    /\ today \in Todays
    /\ out = [op |-> "start", exc |-> "none"]
    /\ pc = Menu

NextStore ==
    \/ morning_briefing
    \/ upcoming_deadlines
    \/ upcoming_exams

SpecStore == InitStore /\ [][NextStore]_vars

(***************************************************************************)
(* The three places that colour a row by the number of days left, each     *)
(* applied to one row.                                                     *)
(***************************************************************************)
MaxDelta == 35 \* rows are up to MaxDelta days before or after today

Deltas == (0 - MaxDelta)..MaxDelta

\* view_exams with "d < 3" for "d <= 3".
view_exams_countdown_under_three(d) ==
    IF d < 0 THEN [style |-> "dim", text |-> "Passed"]
    ELSE IF d = 0 THEN [style |-> "bold red", text |-> "TODAY!"]
    ELSE IF d < 3 THEN [style |-> "bold red", text |-> "N days away!"]
    ELSE IF d <= 7 THEN [style |-> "yellow", text |-> "N days away"]
    ELSE [style |-> "plain", text |-> "N days away"]

\* view_exams: the Countdown cell of an exam d days away.
view_exams_countdown(d) ==
    IF d < 0 THEN [style |-> "dim", text |-> "Passed"]
    ELSE IF d = 0 THEN [style |-> "bold red", text |-> "TODAY!"]
    ELSE IF d <= 3 THEN [style |-> "bold red", text |-> "N days away!"]
    ELSE IF d <= 7 THEN [style |-> "yellow", text |-> "N days away"]
    ELSE [style |-> "plain", text |-> "N days away"]

\* view_family: the Next Birthday cell of a birthday d days away (d >= 0: a
\* birthday already past this year is counted to next year's).
view_family_next_bday(d) ==
    IF d = 0 THEN [style |-> "bold red", text |-> "TODAY!"]
    ELSE IF d <= 7 THEN [style |-> "bold yellow", text |-> "N days!"]
    ELSE IF d <= 30 THEN [style |-> "yellow", text |-> "N days"]
    ELSE [style |-> "plain", text |-> "N days"]

view_exams_row ==
    \E d \in Deltas :
        /\ out' = [op |-> "view_exams", delta |-> d,
                   style |-> view_exams_countdown(d).style,
                   text |-> view_exams_countdown(d).text]
        /\ UNCHANGED <<files, today, pc>>

\* morning_briefing lists only exams with d >= 0.
briefing_exam_row ==
    \E d \in Deltas :
        /\ d >= 0
        /\ out' = [op |-> "briefing_exam", delta |-> d,
                   style |-> briefing_exam_urgency(d),
                   text |-> friendly_deadline(d).text]
        /\ UNCHANGED <<files, today, pc>>

view_family_row ==
    \E d \in Deltas :
        /\ d >= 0
        /\ out' = [op |-> "view_family", delta |-> d,
                   style |-> view_family_next_bday(d).style,
                   text |-> view_family_next_bday(d).text]
        /\ UNCHANGED <<files, today, pc>>

\* view_assignments: the Deadline cell of an assignment due in d days.
view_assignments_row ==
    \E d \in Deltas :
        /\ out' = [op |-> "view_assignments", delta |-> d,
                   style |-> "magenta",
                   text |-> friendly_deadline(d).text,
                   n |-> friendly_deadline(d).n]
        /\ UNCHANGED <<files, today, pc>>

NextUrgency ==
    \/ view_assignments_row
    \/ view_exams_row
    \/ briefing_exam_row
    \/ view_family_row

SpecUrgency == Init /\ [][NextUrgency]_vars

(***************************************************************************)
(* Stores as another writer may have left them: records of an older        *)
(* version that lack a field, a torn file, bytes that are not UTF-8.  Up   *)
(* to MaxStores store files are present.                                   *)
(***************************************************************************)
MaxStores == 2

CompleteRecord(f) ==
    CASE f = "schedule.json" ->
            [course |-> "CS101", day |-> "Saturday", time |-> Time0900, room |-> "TBD"]
      [] f = "assignments.json" ->
            [title |-> TxtEssay, course |-> "CS101", due_date |-> Date0930, done |-> FALSE]
      [] f = "exams.json" -> [title |-> "Final", course |-> "CS101", date |-> Date1004]
      [] f = "reminders.json" -> [text |-> "Call home", date |-> Date0926, repeat |-> "Once"]
      [] f = "todos.json" -> [task |-> "Laundry", priority |-> "High", done |-> FALSE]
      [] f = "family_events.json" -> [title |-> "Family dinner", date |-> Date1004]
      [] f = "errands.json" -> [task |-> "Pharmacy", done |-> FALSE]

IncompleteRecords(f) ==
    CASE f = "schedule.json" ->
            {[course |-> "MATH201", time |-> Time1000, room |-> "TBD"],
             [course |-> "MATH201", day |-> "Saturday", room |-> "TBD"]}
      [] f = "assignments.json" ->
            {[title |-> TxtQuiz, course |-> "CS101", done |-> FALSE],
             [course |-> "CS101", due_date |-> Date1004, done |-> FALSE],
             [title |-> TxtQuiz, due_date |-> Date1004, done |-> FALSE]}
      [] f = "exams.json" -> {[title |-> "Midterm", course |-> "CS101"]}
      [] f = "reminders.json" -> {[date |-> Date0926, repeat |-> "Once"]}
      [] f = "todos.json" -> {[priority |-> "High", done |-> FALSE]}
      [] f = "family_events.json" -> {[title |-> "Picnic"]}
      [] f = "errands.json" -> {[task |-> "Groceries"]}

DiskContents(f) ==
    {Undecodable, Torn, Json(<<CompleteRecord(f)>>)}
        \cup {Json(<<r>>) : r \in IncompleteRecords(f)}
        \cup {Json(<<CompleteRecord(f), r>>) : r \in IncompleteRecords(f)}
        \cup {Json(<<r, CompleteRecord(f)>>) : r \in IncompleteRecords(f)}

\* The data/ directories over the store names S with at most n files present.
RECURSIVE Disks(_, _)
Disks(S, n) ==
    IF S = {} THEN {[g \in {} |-> Absent]}
    ELSE LET f == CHOOSE g \in S : TRUE
             With(d, c) == [g \in DOMAIN d \cup {f} |-> IF g = f THEN c ELSE d[g]]
         IN  {With(d, Absent) : d \in Disks(S \ {f}, n)}
                \cup (IF n = 0 THEN {}
                      ELSE UNION {{With(d, c) : c \in DiskContents(f)} :
                                    d \in Disks(S \ {f}, n - 1)})

InitDisk ==
    /\ \E d \in Disks(FileNames, MaxStores) :
        files = [g \in StoreNames |-> IF g \in FileNames THEN d[g] ELSE Absent]
    /\ today \in Todays
    /\ out = [op |-> "start", exc |-> "none"]
    /\ pc = Menu

NextDisk == morning_briefing

SpecDisk == InitDisk /\ [][NextDisk]_vars

(***************************************************************************)
(* The list handlers of the secretary and of the student manager, and the  *)
(* briefing, over one store filled with records: reminders, family events  *)
(* and schedule entries up to MaxEntries, to-dos up to MaxRecords.  A       *)
(* record without a date or a priority, or with a priority outside the     *)
(* three choices, is one of an older version or of a file edited by hand.  *)
(***************************************************************************)
MaxEntries == 3

Date1001 == <<50, 48, 50, 54, 45, 49, 48, 45, 48, 49>> \* "2026-10-01"

Date1010 == <<50, 48, 50, 54, 45, 49, 48, 45, 49, 48>> \* "2026-10-10"

\* todays_reminders(): the list it returns.
todays_reminders ==
    LET loaded == load_json(files["reminders.json"], <<>>)
        IsToday(r) == Has(r, "date") /\ r.date = FormatDate(today)
    IN  /\ out' = [op |-> "todays_reminders", exc |-> loaded.exc,
                   rows |-> IF loaded.exc = "none" THEN SelectSeq(loaded.value, IsToday)
                            ELSE <<>>]
        /\ UNCHANGED <<files, today, pc>>

\* pending_todos(limit): the list it returns.
pending_todos ==
    \E limit \in {5} :
        LET loaded == load_json(files["todos.json"], <<>>)
            pending == SelectSeq(loaded.value, NotDone)
            RankKey(t) == <<priority_order(t)>>
        IN  /\ out' = [op |-> "pending_todos", exc |-> loaded.exc,
                       rows |-> IF loaded.exc = "none"
                                THEN Take(SortByKey(pending, RankKey), limit)
                                ELSE <<>>]
            /\ UNCHANGED <<files, today, pc>>

\* todays_classes(): the free-time message, or the rows of the table.
todays_classes ==
    LET loaded == load_json(files["schedule.json"], <<>>)
        schedule == loaded.value
        IsToday(c) == c.day = WeekdayName(today)
        TimeKey(c) == c.time
        exc == IF loaded.exc # "none" THEN loaded.exc
               ELSE IF \E i \in Indices(schedule) : ~Has(schedule[i], "day") THEN "KeyError"
               ELSE LET todays == SelectSeq(schedule, IsToday)
                    IN  IF \E i \in Indices(todays) :
                                ~Has(todays[i], "time") \/ ~Has(todays[i], "course")
                        THEN "KeyError"
                        ELSE "none"
        todays == IF exc = "none" THEN SelectSeq(schedule, IsToday) ELSE <<>>
    IN  /\ out' = [op |-> "todays_classes", exc |-> exc,
                   mode |-> IF exc # "none" THEN "none"
                            ELSE IF todays = <<>> THEN "free day" ELSE "classes",
                   rows |-> SortByKey(todays, TimeKey)]
        /\ UNCHANGED <<files, today, pc>>

ReminderRecords ==
    {[text |-> "Call home", date |-> Date0926, repeat |-> "Once"],
     [text |-> "Gym", date |-> Date0926, repeat |-> "Daily"],
     [text |-> "Renew pass", date |-> Date1001, repeat |-> "Weekly"],
     [text |-> "Rent", date |-> Date1004, repeat |-> "Monthly"],
     [text |-> "Stretch", repeat |-> "Daily"]}

TodoRecords ==
    {[task |-> "Laundry", priority |-> "High", done |-> FALSE],
     [task |-> "Taxes", priority |-> "High", done |-> TRUE],
     [task |-> "Email", priority |-> "Medium", done |-> FALSE],
     [task |-> "Books", priority |-> "Low", done |-> FALSE],
     [task |-> "Shoes", priority |-> "Urgent", done |-> FALSE],
     [task |-> "Plants", done |-> FALSE]}

EventRecords ==
    {[title |-> "Game night", date |-> Date0926],
     [title |-> "Family dinner", date |-> Date1004],
     [title |-> "Recital", date |-> Date1010],
     [title |-> "Reunion", date |-> Date1020],
     [title |-> "Picnic"]}

ScheduleRecords ==
    {[course |-> "CS101", day |-> "Saturday", time |-> Time0900, room |-> "TBD"],
     [course |-> "MATH201", day |-> "Saturday", time |-> Time1000, room |-> "TBD"],
     [course |-> "ART105", day |-> "Saturday", time |-> Time200, room |-> "TBD"],
     [course |-> "PHYS110", day |-> "Thursday", time |-> Time0900, room |-> "TBD"],
     [course |-> "BIO150", day |-> "Monday", time |-> Time1000, room |-> "TBD"]}

ListContents(f) ==
    CASE f = "reminders.json" -> SeqsUpTo(ReminderRecords, MaxEntries)
      [] f = "todos.json" -> SeqsUpTo(TodoRecords, MaxRecords)
      [] f = "family_events.json" -> SeqsUpTo(EventRecords, MaxEntries)
      [] f = "schedule.json" -> SeqsUpTo(ScheduleRecords, MaxEntries)

InitLists ==
    /\ \E f \in {"reminders.json", "todos.json", "family_events.json", "schedule.json"} :
        \E s \in ListContents(f) :
            files = [g \in StoreNames |-> IF g = f THEN Json(s) ELSE Absent]
    /\ today \in Todays
    /\ out = [op |-> "start", exc |-> "none"]
    /\ pc = Menu

NextLists ==
    \/ morning_briefing
    \/ todays_reminders
    \/ pending_todos
    \/ view_todos
    \/ todays_classes

SpecLists == InitLists /\ [][NextLists]_vars

(***************************************************************************)
(* days_until on its own: the clock reads a day and an hour, the target is *)
(* the text of a day.                                                      *)
(***************************************************************************)
Days ==
    {[year |-> 2024, month |-> 2, day |-> 28], [year |-> 2024, month |-> 2, day |-> 29],
     [year |-> 2024, month |-> 3, day |-> 1], [year |-> 2025, month |-> 2, day |-> 28],
     [year |-> 2025, month |-> 3, day |-> 1], [year |-> 2026, month |-> 9, day |-> 26],
     [year |-> 2026, month |-> 12, day |-> 31], [year |-> 2027, month |-> 1, day |-> 1]}

\* now(): a day and the hour of that day, just after midnight or just before.
Clocks ==
    {[year |-> d.year, month |-> d.month, day |-> d.day, hour |-> h] :
        d \in Days, h \in {0, 23}}

DateTargets == {FormatDate(d) : d \in Days}

days_until_call ==
    \E s \in DateTargets :
        /\ out' = [op |-> "days_until", exc |-> IF BadDate(s) THEN "ValueError" ELSE "none",
                   target |-> s, delta |-> days_until(s, today)]
        /\ UNCHANGED <<files, today, pc>>

InitDays ==
    /\ files = [f \in StoreNames |-> Absent]
    /\ today \in Clocks
    /\ out = [op |-> "start", exc |-> "none"]
    /\ pc = Menu

NextDays == days_until_call

SpecDays == InitDays /\ [][NextDays]_vars

(***************************************************************************)
(* Research history and bookmarks.  The clock of these runs reads a day    *)
(* and a time of that day; every call that writes reads a later time.      *)
(***************************************************************************)
\* history[-100:]: the entries _save_research keeps.
HistoryKept == 100

\* summary[:500]: the characters of a summary _save_research keeps.
SummaryKept == 500

\* history[-20:]: the entries view_research_history shows.
HistoryShown == 20

MaxSaves == 3       \* research entries and bookmarks saved in one run
MaxBookmarks == 2   \* bookmarks the store holds at most

\* What a research handler passes to _save_research; a summary is modelled
\* by its length in characters.
ResearchInputs ==
    {[source |-> "Wikipedia", topic |-> "Alan Turing", summary |-> 800,
      url |-> "https://en.wikipedia.org/wiki/Alan_Turing"],
     [source |-> "Fact Lookup", topic |-> "speed of light", summary |-> 42,
      url |-> ""]}

BookmarkInputs ==
    {[title |-> "TLA+ home", url |-> "https://lamport.azurewebsites.net/tla/tla.html",
      category |-> "Study"]}

\* The entry _save_research appends when the clock reads time t.
ResearchEntry(input, t) ==
    [id |-> t, source |-> input.source, topic |-> input.topic,
     summary |-> IF input.summary > SummaryKept THEN SummaryKept ELSE input.summary,
     url |-> input.url, timestamp |-> t]

\* _save_research keeping the first 100 entries in place of the last 100.
_save_research_keeping_oldest ==
    \E input \in ResearchInputs, outcome \in SaveOutcomesNow :
        LET loaded == load_json(files["research_history.json"], <<>>)
            appended == Append(loaded.value, ResearchEntry(input, today.time + 1))
            history == IF Len(appended) > HistoryKept
                       THEN SubSeq(appended, 1, HistoryKept)
                       ELSE appended
        IN  /\ today.time < HistoryKept + MaxSaves
            /\ IF loaded.exc # "none"
               THEN /\ UNCHANGED files
                    /\ out' = [op |-> "_save_research", exc |-> loaded.exc]
               ELSE /\ files' = [files EXCEPT !["research_history.json"] =
                                    save_json(history, outcome)]
                    /\ out' = [op |-> "_save_research",
                               exc |-> IF outcome # "written" THEN "stopped" ELSE "none"]
            /\ today' = [today EXCEPT !.time = @ + 1]
            /\ UNCHANGED pc

\* _save_research(source, topic, summary, url)
_save_research ==
    \E input \in ResearchInputs, outcome \in SaveOutcomesNow :
        LET loaded == load_json(files["research_history.json"], <<>>)
            appended == Append(loaded.value, ResearchEntry(input, today.time + 1))
            history == IF Len(appended) > HistoryKept
                       THEN SubSeq(appended, Len(appended) - HistoryKept + 1, Len(appended))
                       ELSE appended
        IN  /\ today.time < HistoryKept + MaxSaves
            /\ IF loaded.exc # "none"
               THEN /\ UNCHANGED files
                    /\ out' = [op |-> "_save_research", exc |-> loaded.exc]
               ELSE /\ files' = [files EXCEPT !["research_history.json"] =
                                    save_json(history, outcome)]
                    /\ out' = [op |-> "_save_research",
                               exc |-> IF outcome # "written" THEN "stopped" ELSE "none"]
            /\ today' = [today EXCEPT !.time = @ + 1]
            /\ UNCHANGED pc

\* view_research_history(): the rows of the table, newest first.
view_research_history ==
    LET loaded == load_json(files["research_history.json"], <<>>)
        history == loaded.value
        shown == IF Len(history) > HistoryShown
                 THEN SubSeq(history, Len(history) - HistoryShown + 1, Len(history))
                 ELSE history
        rows == [i \in 1..Len(shown) |-> shown[Len(shown) + 1 - i]]
    IN  /\ out' = [op |-> "view_research_history", exc |-> loaded.exc,
                   rows |-> IF loaded.exc = "none" THEN rows ELSE <<>>]
        /\ UNCHANGED <<files, today, pc>>

\* add_bookmark()
add_bookmark ==
    \E input \in BookmarkInputs, outcome \in SaveOutcomesNow :
        LET loaded == load_json(files["bookmarks.json"], <<>>)
            bookmarks == Append(loaded.value,
                                [id |-> today.time + 1, title |-> input.title,
                                 url |-> input.url, category |-> input.category,
                                 added |-> today.time + 1])
        IN  /\ today.time < HistoryKept + MaxSaves
            /\ Len(loaded.value) < MaxBookmarks
            /\ IF loaded.exc # "none"
               THEN /\ UNCHANGED files
                    /\ out' = [op |-> "add_bookmark", exc |-> loaded.exc]
               ELSE /\ files' = [files EXCEPT !["bookmarks.json"] =
                                    save_json(bookmarks, outcome)]
                    /\ out' = [op |-> "add_bookmark",
                               exc |-> IF outcome # "written" THEN "stopped" ELSE "none"]
            /\ today' = [today EXCEPT !.time = @ + 1]
            /\ UNCHANGED pc

\* The history n earlier saves have left, the last of them at time HistoryKept.
SavedHistory(n) ==
    [i \in 1..n |-> ResearchEntry(CHOOSE input \in ResearchInputs : input.source = "Wikipedia",
                                  HistoryKept - n + i)]

InitResearch ==
    /\ \E n \in {0, HistoryKept - 1, HistoryKept} :
            files = [f \in StoreNames |->
                        IF f = "research_history.json" /\ n > 0
                        THEN Json(SavedHistory(n)) ELSE Absent]
    /\ \E d \in Todays :
            today = [year |-> d.year, month |-> d.month, day |-> d.day,
                     time |-> HistoryKept]
    /\ out = [op |-> "start", exc |-> "none"]
    /\ pc = Menu

NextResearch ==
    \/ _save_research
    \/ view_research_history
    \/ add_bookmark
    \/ morning_briefing

SpecResearch == InitResearch /\ [][NextResearch]_vars


(***************************************************************************)
(* The Pomodoro study timer.  While it runs, pc holds the durations typed, *)
(* the session and the countdown the loop is in, and the seconds the       *)
(* countdown still has to sleep; out holds the lines printed so far.       *)
(***************************************************************************)
\* work_minutes * 60, break_minutes * 60
SecondsPerMinute == 60

\* The minutes typed at the two duration prompts.
MinuteInputs == {0, 1}

\* The number typed at the sessions prompt.
SessionInputs == {0, 1, 2, 3}

Timer(p, session, phase, remaining) ==
    [op |-> "pomodoro_timer", work |-> p.work, brk |-> p.brk, sessions |-> p.sessions,
     session |-> session, phase |-> phase, remaining |-> remaining]

RECURSIVE _countdown(_, _, _, _), pomodoro_loop(_, _, _, _)

\* The loop announces the countdown of a session's phase and calls
\* _countdown(seconds): range(seconds, 0, -1) sleeps once per second, and
\* not at all when seconds is not positive.
_countdown(p, session, phase, lines) ==
    LET seconds == (IF phase = "work" THEN p.work ELSE p.brk) * SecondsPerMinute
        printed == Append(lines, phase)
    IN  IF seconds > 0
        THEN [pc |-> Timer(p, session, phase, seconds), lines |-> printed]
        ELSE pomodoro_loop(p, session, phase, printed)

\* The loop of pomodoro_timer once the countdown of a session's phase is
\* over: a break follows work unless the session is the last one, the next
\* session's work follows a break, the end of the loop prints "complete".
pomodoro_loop(p, session, phase, lines) ==
    IF phase = "work"
    THEN IF session < p.sessions
         THEN _countdown(p, session, "break", lines)
         ELSE [pc |-> Menu, lines |-> Append(lines, "complete")]
    ELSE _countdown(p, session + 1, "work", lines)

\* pomodoro_timer(): the prompts, and the loop up to its first sleep.
pomodoro_timer ==
    \E work \in MinuteInputs, brk \in MinuteInputs, sessions \in SessionInputs :
        LET p == [work |-> work, brk |-> brk, sessions |-> sessions]
            run == IF sessions >= 1
                   THEN _countdown(p, 1, "work", <<>>)
                   ELSE [pc |-> Menu, lines |-> <<"complete">>]
        IN  /\ pc = Menu
            /\ pc' = run.pc
            /\ out' = [op |-> "pomodoro_timer", exc |-> "none", sessions |-> sessions,
                       lines |-> run.lines]
            /\ UNCHANGED <<files, today>>

\* time.sleep(1) returns: the countdown goes on, or ends and the loop goes on
\* up to its next sleep.
sleep_returns ==
    /\ pc.op = "pomodoro_timer"
    /\ LET run == IF pc.remaining > 1
                  THEN [pc |-> [pc EXCEPT !.remaining = @ - 1], lines |-> out.lines]
                  ELSE pomodoro_loop(pc, pc.session, pc.phase, out.lines)
       IN  /\ pc' = run.pc
           /\ out' = [out EXCEPT !.lines = run.lines]
    /\ UNCHANGED <<files, today>>

\* keyboard_interrupt that ends the timer in a break as well.
keyboard_interrupt_ending_break ==
    /\ pc.op = "pomodoro_timer"
    /\ pc' = Menu
    /\ out' = [out EXCEPT !.lines = Append(out.lines, "stopped")]
    /\ UNCHANGED <<files, today>>

\* keyboard_interrupt that notes the stopped session in the errands store.
keyboard_interrupt_logging ==
    /\ pc.op = "pomodoro_timer"
    /\ LET run == IF pc.phase = "work"
                  THEN [pc |-> Menu, lines |-> Append(out.lines, "stopped")]
                  ELSE pomodoro_loop(pc, pc.session, pc.phase, Append(out.lines, "skipped"))
       IN  /\ pc' = run.pc
           /\ out' = [out EXCEPT !.lines = run.lines]
    /\ files' = [files EXCEPT !["errands.json"] =
                    Json(Append(load_json(files["errands.json"], <<>>).value,
                                [task |-> "Study", done |-> FALSE]))]
    /\ UNCHANGED today

\* Ctrl+C while a countdown runs: KeyboardInterrupt leaves _countdown and is
\* caught by the except clause around the call.
keyboard_interrupt ==
    /\ pc.op = "pomodoro_timer"
    /\ LET run == IF pc.phase = "work"
                  THEN [pc |-> Menu, lines |-> Append(out.lines, "stopped")]
                  ELSE pomodoro_loop(pc, pc.session, pc.phase, Append(out.lines, "skipped"))
       IN  /\ pc' = run.pc
           /\ out' = [out EXCEPT !.lines = run.lines]
    /\ UNCHANGED <<files, today>>

\* The student menu: one handler at a time, the next one when it returns.
NextPomodoro ==
    \/ pc = Menu /\ add_errand
    \/ pc = Menu /\ add_todo
    \/ pomodoro_timer
    \/ sleep_returns
    \/ keyboard_interrupt

SpecPomodoro == Init /\ [][NextPomodoro]_vars

\* time.sleep(1) returns after a second unless it is interrupted.
SpecPomodoroLive == SpecPomodoro /\ WF_vars(sleep_returns)


(***************************************************************************)
(* The profile and the weather line of the briefing.  Texts are character  *)
(* codes: the briefing searches the weather text for two phrases.          *)
(***************************************************************************)
\* "Weather unavailable (install 'requests')"
MsgInstall ==
    <<87, 101, 97, 116, 104, 101, 114, 32, 117, 110, 97, 118, 97, 105, 108,
      97, 98, 108, 101, 32, 40, 105, 110, 115, 116, 97, 108, 108, 32, 39,
      114, 101, 113, 117, 101, 115, 116, 115, 39, 41>>

\* 'Set your city in profile for weather info'
MsgSetCity ==
    <<83, 101, 116, 32, 121, 111, 117, 114, 32, 99, 105, 116, 121, 32, 105,
      110, 32, 112, 114, 111, 102, 105, 108, 101, 32, 102, 111, 114, 32,
      119, 101, 97, 116, 104, 101, 114, 32, 105, 110, 102, 111>>

\* 'Weather data unavailable'
MsgNoData ==
    <<87, 101, 97, 116, 104, 101, 114, 32, 100, 97, 116, 97, 32, 117, 110,
      97, 118, 97, 105, 108, 97, 98, 108, 101>>

\* 'Could not fetch weather'
MsgCouldNot ==
    <<67, 111, 117, 108, 100, 32, 110, 111, 116, 32, 102, 101, 116, 99,
      104, 32, 119, 101, 97, 116, 104, 101, 114>>

\* 'unavailable'
TxtUnavailable ==
    <<117, 110, 97, 118, 97, 105, 108, 97, 98, 108, 101>>

\* 'set your'
TxtSetYour ==
    <<115, 101, 116, 32, 121, 111, 117, 114>>

\* 'Sunny +21°C 40% 5km/h\n'
BodySunny ==
    <<83, 117, 110, 110, 121, 32, 43, 50, 49, 176, 67, 32, 52, 48, 37, 32,
      53, 107, 109, 47, 104, 10>>

\* '\n'
BodyBlank ==
    <<10>>

\* '404 Not Found\n'
BodyNotFound ==
    <<52, 48, 52, 32, 78, 111, 116, 32, 70, 111, 117, 110, 100, 10>>

\* 'Oslo'
CityOslo ==
    <<79, 115, 108, 111>>

\* 'New York'
CityYork ==
    <<78, 101, 119, 32, 89, 111, 114, 107>>

\* What the user types at the prompts of setup_profile.
ProfileInputs ==
    {[name |-> "Sam", city |-> c] : c \in {<<>>, CityOslo, CityYork}}

\* setup_profile(): the prompts default to what the profile holds.
setup_profile ==
    \E input \in ProfileInputs, outcome \in SaveOutcomesNow :
        LET loaded == load_json(files["profile.json"], <<>>)
            profile == [name |-> input.name, nickname |-> input.name, city |-> input.city]
        IN  /\ IF loaded.exc # "none"
               THEN /\ UNCHANGED files
                    /\ out' = [op |-> "setup_profile", exc |-> loaded.exc]
               ELSE /\ files' = [files EXCEPT !["profile.json"] = save_json(profile, outcome)]
                    /\ out' = [op |-> "setup_profile",
                               exc |-> IF outcome # "written" THEN "stopped" ELSE "none"]
            /\ UNCHANGED <<today, pc>>

\* str.strip(): whitespace taken off both ends.
IsSpace(c) == c \in {9, 10, 11, 12, 13, 32}

RECURSIVE Strip(_)
Strip(s) ==
    IF s = <<>> THEN s
    ELSE IF IsSpace(s[1]) THEN Strip(Tail(s))
    ELSE IF IsSpace(s[Len(s)]) THEN Strip(SubSeq(s, 1, Len(s) - 1))
    ELSE s

\* needle in s
Contains(needle, s) ==
    \E i \in 1..(Len(s) - Len(needle) + 1) : SubSeq(s, i, i + Len(needle) - 1) = needle

\* What requests.get(url, timeout=5) does: it raises, or it returns a
\* response with a status and a body.
FetchOutcomes ==
    {[exc |-> "Timeout", status |-> 0, text |-> <<>>],
     [exc |-> "ConnectionError", status |-> 0, text |-> <<>>],
     [exc |-> "none", status |-> 200, text |-> BodySunny],
     [exc |-> "none", status |-> 200, text |-> BodyBlank],
     [exc |-> "none", status |-> 404, text |-> BodyNotFound],
     [exc |-> "none", status |-> 503, text |-> <<>>]}

\* get_weather(): the text returned, or the exception that leaves it.
\* has_requests: whether "import requests" worked when the module loaded.
get_weather(has_requests, loaded, fetch) ==
    LET profile == loaded.value
        city == IF Has(profile, "city") THEN profile.city ELSE <<>>
    IN  IF ~has_requests THEN [exc |-> "none", text |-> MsgInstall]
        ELSE IF loaded.exc # "none" THEN [exc |-> loaded.exc, text |-> <<>>]
        ELSE IF city = <<>> THEN [exc |-> "none", text |-> MsgSetCity]
        ELSE IF fetch.exc # "none" THEN [exc |-> "none", text |-> MsgCouldNot]
        ELSE IF fetch.status = 200 THEN [exc |-> "none", text |-> Strip(fetch.text)]
        ELSE [exc |-> "none", text |-> MsgNoData]

\* Whether morning_briefing prints "Weather in <city>: <weather>".
weather_line(weather) ==
    /\ weather # <<>>
    /\ ~Contains(TxtUnavailable, Lower(weather))
    /\ ~Contains(TxtSetYour, Lower(weather))

\* morning_briefing() from its first line: the profile, the weather, then
\* the sections and the quote.
morning_briefing_weather ==
    \E has_requests \in BOOLEAN, fetch \in FetchOutcomes, quote \in QuoteChoices :
        \E loaded \in {load_json(files["profile.json"], <<>>)} :
        \E weather \in {get_weather(has_requests, loaded, fetch)} :
        \E rest \in {Briefing(files, today, quote)} :
            LET exc == IF loaded.exc # "none" THEN loaded.exc ELSE weather.exc
            IN  /\ out' = IF exc # "none"
                          THEN [op |-> "morning_briefing", exc |-> exc]
                          ELSE [k \in DOMAIN rest \cup {"library", "fetch", "weather", "weather_shown"} |->
                                  CASE k = "library" -> has_requests
                                    [] k = "fetch" -> fetch
                                    [] k = "weather" -> weather.text
                                    [] k = "weather_shown" -> weather_line(weather.text)
                                    [] OTHER -> rest[k]]
                /\ UNCHANGED <<files, today, pc>>

NextWeather ==
    \/ setup_profile
    \/ morning_briefing_weather

SpecWeather == Init /\ [][NextWeather]_vars


MaxPlan == 2      \* items a day's plan holds at most
MaxIndexed == 2   \* records of a store whose records are picked by number

(***************************************************************************)
(* Handlers that show a list and then ask which record to act on: by its   *)
(* number (notes, reminders, errands, the daily plan; the to-do list       *)
(* above) or by its name (classes).                                        *)
(***************************************************************************)
\* What a handler printed last: that there is nothing to act on, that the
\* number or name typed matches nothing, or that it has done its work.
Said(exc, nothing, valid) ==
    IF exc # "none" THEN "raised"
    ELSE IF nothing THEN "nothing to do"
    ELSE IF valid THEN "done"
    ELSE "no match"

\* list.pop(idx), idx counted from 0
Pop(s, idx) == [i \in 1..(Len(s) - 1) |-> IF i <= idx THEN s[i] ELSE s[i + 1]]

\* record["done"] = True
SetDone(r) == [k \in DOMAIN r \cup {"done"} |-> IF k = "done" THEN TRUE ELSE r[k]]

Date9999 == <<57, 57, 57, 57, 45, 57, 57, 45, 57, 57>> \* "9999-99-99"

Date0920 == <<50, 48, 50, 54, 45, 48, 57, 45, 50, 48>> \* "2026-09-20"

\* view_reminders(): the rows of the table, in the order shown.
view_reminders_table(loaded) ==
    LET DateKey(r) == IF Has(r, "date") THEN r.date ELSE Date9999
        reminders == SortByKey(loaded.value, DateKey)
        RowExc(r) ==
            IF Has(r, "date") /\ r.date # <<>> /\ BadDate(r.date) THEN "ValueError"
            ELSE IF ~Has(r, "text") THEN "KeyError"
            ELSE "none"
        failing == {i \in Indices(reminders) : RowExc(reminders[i]) # "none"}
        exc == IF loaded.exc # "none" THEN loaded.exc
               ELSE IF failing # {} THEN RowExc(reminders[FirstSuch(failing)])
               ELSE "none"
    IN  [exc |-> exc, rows |-> IF exc = "none" THEN reminders ELSE <<>>]

view_reminders ==
    LET table == view_reminders_table(load_json(files["reminders.json"], <<>>))
    IN  /\ out' = [op |-> "view_reminders", exc |-> table.exc, rows |-> table.rows]
        /\ UNCHANGED <<files, today, pc>>

\* delete_reminder(): the list is shown by view_reminders, the number typed
\* counts into the list as loaded.
delete_reminder ==
    \E number \in NumberInputs, outcome \in SaveOutcomesNow :
        LET loaded == load_json(files["reminders.json"], <<>>)
            reminders == loaded.value
            table == view_reminders_table(load_json(files["reminders.json"], <<>>))
            idx == number - 1
            seen == IF loaded.exc # "none" THEN loaded.exc
                    ELSE IF reminders = <<>> THEN "none"
                    ELSE table.exc
            valid == seen = "none" /\ 0 <= idx /\ idx < Len(reminders)
            exc == IF valid /\ outcome # "written" THEN "stopped"
                   ELSE IF valid /\ ~Has(reminders[idx + 1], "text") THEN "KeyError"
                   ELSE seen
        IN  /\ IF valid
               THEN files' = [files EXCEPT !["reminders.json"] =
                                save_json(Pop(reminders, idx), outcome)]
               ELSE /\ outcome = "written"
                    /\ UNCHANGED files
            /\ out' = [op |-> "delete_reminder", exc |-> exc, number |-> number,
                       found |-> valid, said |-> Said(exc, reminders = <<>>, valid)]
            /\ UNCHANGED <<today, pc>>

\* view_notes(): one panel per note, printed as the loop goes; the notes
\* shown before the first one that raises.
view_notes_shown(loaded) ==
    LET notes == loaded.value
        failing == {i \in Indices(notes) : ~Has(notes[i], "content")}
        exc == IF loaded.exc # "none" THEN loaded.exc
               ELSE IF failing # {} THEN "KeyError"
               ELSE "none"
    IN  [exc |-> exc,
         rows |-> IF loaded.exc # "none" THEN <<>>
                  ELSE IF failing # {} THEN SubSeq(notes, 1, FirstSuch(failing) - 1)
                  ELSE notes]

view_notes ==
    LET shown == view_notes_shown(load_json(files["notes.json"], <<>>))
    IN  /\ out' = [op |-> "view_notes", exc |-> shown.exc, rows |-> shown.rows]
        /\ UNCHANGED <<files, today, pc>>

\* delete_note()
delete_note ==
    \E number \in NumberInputs, outcome \in SaveOutcomesNow :
        LET loaded == load_json(files["notes.json"], <<>>)
            notes == loaded.value
            shown == view_notes_shown(load_json(files["notes.json"], <<>>))
            idx == number - 1
            seen == IF loaded.exc # "none" THEN loaded.exc
                    ELSE IF notes = <<>> THEN "none"
                    ELSE shown.exc
            valid == seen = "none" /\ 0 <= idx /\ idx < Len(notes)
            exc == IF valid /\ outcome # "written" THEN "stopped"
                   ELSE IF valid /\ ~Has(notes[idx + 1], "title") THEN "KeyError"
                   ELSE seen
        IN  /\ IF valid
               THEN files' = [files EXCEPT !["notes.json"] =
                                save_json(Pop(notes, idx), outcome)]
               ELSE /\ outcome = "written"
                    /\ UNCHANGED files
            /\ out' = [op |-> "delete_note", exc |-> exc, number |-> number,
                       found |-> valid, said |-> Said(exc, notes = <<>>, valid)]
            /\ UNCHANGED <<today, pc>>

\* view_errands(): the rows of the table, in the order shown.
view_errands_table(loaded) ==
    LET errands == loaded.value
        exc == IF loaded.exc # "none" THEN loaded.exc
               ELSE IF \E i \in Indices(errands) : ~Has(errands[i], "task") THEN "KeyError"
               ELSE "none"
    IN  [exc |-> exc, rows |-> IF exc = "none" THEN errands ELSE <<>>]

view_errands ==
    LET table == view_errands_table(load_json(files["errands.json"], <<>>))
    IN  /\ out' = [op |-> "view_errands", exc |-> table.exc, rows |-> table.rows]
        /\ UNCHANGED <<files, today, pc>>

\* complete_errand() with the lower bound of the number left unchecked, so
\* that 0 counts from the end of the list as errands[-1] does.
complete_errand_from_the_end ==
    \E number \in NumberInputs, outcome \in SaveOutcomesNow :
        LET loaded == load_json(files["errands.json"], <<>>)
            errands == loaded.value
            pending == SelectSeq(errands, NotDone)
            table == view_errands_table(load_json(files["errands.json"], <<>>))
            idx == number - 1
            seen == IF loaded.exc # "none" THEN loaded.exc
                    ELSE IF pending = <<>> THEN "none"
                    ELSE table.exc
            valid == seen = "none" /\ pending # <<>> /\ idx < Len(errands)
            at == IF idx < 0 THEN Len(errands) + 1 + idx ELSE idx + 1
            exc == IF valid /\ outcome # "written" THEN "stopped" ELSE seen
        IN  /\ IF valid
               THEN files' = [files EXCEPT !["errands.json"] =
                                save_json([errands EXCEPT ![at] = SetDone(@)], outcome)]
               ELSE /\ outcome = "written"
                    /\ UNCHANGED files
            /\ out' = [op |-> "complete_errand", exc |-> exc, number |-> number,
                       found |-> valid, said |-> Said(exc, pending = <<>>, valid)]
            /\ UNCHANGED <<today, pc>>

\* complete_errand()
complete_errand ==
    \E number \in NumberInputs, outcome \in SaveOutcomesNow :
        LET loaded == load_json(files["errands.json"], <<>>)
            errands == loaded.value
            pending == SelectSeq(errands, NotDone)
            table == view_errands_table(load_json(files["errands.json"], <<>>))
            idx == number - 1
            seen == IF loaded.exc # "none" THEN loaded.exc
                    ELSE IF pending = <<>> THEN "none"
                    ELSE table.exc
            valid == seen = "none" /\ pending # <<>> /\ 0 <= idx /\ idx < Len(errands)
            exc == IF valid /\ outcome # "written" THEN "stopped" ELSE seen
        IN  /\ IF valid
               THEN files' = [files EXCEPT !["errands.json"] =
                                save_json([errands EXCEPT ![idx + 1] = SetDone(@)], outcome)]
               ELSE /\ outcome = "written"
                    /\ UNCHANGED files
            /\ out' = [op |-> "complete_errand", exc |-> exc, number |-> number,
                       found |-> valid, said |-> Said(exc, pending = <<>>, valid)]
            /\ UNCHANGED <<today, pc>>

\* The planner is a JSON object from date text to that day's plan; its
\* entries are kept in the order of the file.  planner.get(date, [])
PlanOf(planner, date) ==
    LET at == {i \in Indices(planner) : planner[i].date = date}
    IN  IF at = {} THEN <<>> ELSE planner[FirstSuch(at)].plan

\* planner[date] = plan
WithPlan(planner, date, plan) ==
    LET at == {i \in Indices(planner) : planner[i].date = date}
    IN  IF at = {} THEN Append(planner, [date |-> date, plan |-> plan])
        ELSE [planner EXCEPT ![FirstSuch(at)] = [date |-> date, plan |-> plan]]

\* view_daily_plan(): one line per item of today's plan, printed as the
\* loop goes.
view_daily_plan_shown(loaded, now) ==
    LET plan == PlanOf(loaded.value, FormatDate(now))
        failing == {i \in Indices(plan) : ~Has(plan[i], "task")}
        exc == IF loaded.exc # "none" THEN loaded.exc
               ELSE IF failing # {} THEN "KeyError"
               ELSE "none"
    IN  [exc |-> exc,
         rows |-> IF loaded.exc # "none" THEN <<>>
                  ELSE IF failing # {} THEN SubSeq(plan, 1, FirstSuch(failing) - 1)
                  ELSE plan]

view_daily_plan ==
    LET shown == view_daily_plan_shown(load_json(files["planner.json"], <<>>), today)
    IN  /\ out' = [op |-> "view_daily_plan", exc |-> shown.exc, rows |-> shown.rows]
        /\ UNCHANGED <<files, today, pc>>

\* complete_plan_item()
complete_plan_item ==
    \E number \in NumberInputs, outcome \in SaveOutcomesNow :
        LET loaded == load_json(files["planner.json"], <<>>)
            planner == loaded.value
            plan == PlanOf(planner, FormatDate(today))
            shown == view_daily_plan_shown(load_json(files["planner.json"], <<>>), today)
            idx == number - 1
            seen == IF loaded.exc # "none" THEN loaded.exc
                    ELSE IF plan = <<>> THEN "none"
                    ELSE shown.exc
            valid == seen = "none" /\ 0 <= idx /\ idx < Len(plan)
            exc == IF valid /\ outcome # "written" THEN "stopped" ELSE seen
        IN  /\ IF valid
               THEN files' = [files EXCEPT !["planner.json"] =
                                save_json(WithPlan(planner, FormatDate(today),
                                                   [plan EXCEPT ![idx + 1] = SetDone(@)]),
                                          outcome)]
               ELSE /\ outcome = "written"
                    /\ UNCHANGED files
            /\ out' = [op |-> "complete_plan_item", exc |-> exc, number |-> number,
                       found |-> valid, said |-> Said(exc, plan = <<>>, valid)]
            /\ UNCHANGED <<today, pc>>

(***************************************************************************)
(* The weekly schedule: view, remove.  Course names are character codes:   *)
(* remove_class compares them in lower case.                               *)
(***************************************************************************)
TxtCS101 == <<67, 83, 49, 48, 49>> \* "CS101"

TxtCS101Typed == <<99, 115, 49, 48, 49>> \* "cs101"

TxtMATH201 == <<77, 65, 84, 72, 50, 48, 49>> \* "MATH201"

TxtCHEM120 == <<67, 72, 69, 77, 49, 50, 48>> \* "CHEM120"

\* days_order.index(day) for a day of days_order, 99 for any other.
days_order_index_first(day) ==
    CASE day = "Monday" -> 0 [] day = "Tuesday" -> 1 [] day = "Wednesday" -> 2
      [] day = "Thursday" -> 3 [] day = "Friday" -> 4 [] day = "Saturday" -> 5
      [] day = "Sunday" -> 6 [] OTHER -> 0

days_order_index(day) ==
    CASE day = "Monday" -> 0 [] day = "Tuesday" -> 1 [] day = "Wednesday" -> 2
      [] day = "Thursday" -> 3 [] day = "Friday" -> 4 [] day = "Saturday" -> 5
      [] day = "Sunday" -> 6 [] OTHER -> 99

\* view_schedule(): the rows of the table, in the order shown.
view_schedule_table(loaded) ==
    LET schedule == loaded.value
        DayTimeKey(c) == <<days_order_index(c.day)>> \o c.time
        keyed == \A i \in Indices(schedule) :
                    Has(schedule[i], "day") /\ Has(schedule[i], "time")
        exc == IF loaded.exc # "none" THEN loaded.exc
               ELSE IF ~keyed THEN "KeyError"
               ELSE IF \E i \in Indices(schedule) : ~Has(schedule[i], "course") THEN "KeyError"
               ELSE "none"
    IN  [exc |-> exc,
         rows |-> IF exc = "none" THEN SortByKey(schedule, DayTimeKey) ELSE <<>>]

view_schedule ==
    LET table == view_schedule_table(load_json(files["schedule.json"], <<>>))
    IN  /\ out' = [op |-> "view_schedule", exc |-> table.exc, rows |-> table.rows]
        /\ UNCHANGED <<files, today, pc>>

\* The course names typed at the prompt of remove_class.
CourseInputs == {TxtCS101Typed, TxtCHEM120}

\* remove_class(): every class of the course typed goes.
remove_class ==
    \E course \in CourseInputs, outcome \in SaveOutcomesNow :
        LET loaded == load_json(files["schedule.json"], <<>>)
            schedule == loaded.value
            table == view_schedule_table(load_json(files["schedule.json"], <<>>))
            Other(c) == Lower(c.course) # Lower(course)
            seen == IF loaded.exc # "none" THEN loaded.exc
                    ELSE IF schedule = <<>> THEN "none"
                    ELSE table.exc
            new_schedule == IF seen = "none" THEN SelectSeq(schedule, Other) ELSE schedule
            found == seen = "none" /\ Len(new_schedule) # Len(schedule)
            exc == IF found /\ outcome # "written" THEN "stopped" ELSE seen
        IN  /\ IF found
               THEN files' = [files EXCEPT !["schedule.json"] =
                                save_json(new_schedule, outcome)]
               ELSE /\ outcome = "written"
                    /\ UNCHANGED files
            /\ out' = [op |-> "remove_class", exc |-> exc, course |-> course,
                       found |-> found, said |-> Said(exc, schedule = <<>>, found)]
            /\ UNCHANGED <<today, pc>>

(***************************************************************************)
(* Runs of these handlers on a store that earlier runs have filled.        *)
(***************************************************************************)
IndexTodos ==
    {[task |-> "Laundry", priority |-> "High", done |-> FALSE],
     [task |-> "Email", priority |-> "Medium", done |-> FALSE],
     [task |-> "Taxes", priority |-> "High", done |-> TRUE, completed_date |-> Date0920]}

IndexReminders ==
    {[text |-> "Rent", date |-> Date1004, repeat |-> "Monthly"],
     [text |-> "Call home", date |-> Date0926, repeat |-> "Once"],
     [text |-> "Stretch", repeat |-> "Daily"]}

IndexNotes ==
    {[title |-> "Idea", content |-> "Model the timer", tag |-> "School", created |-> Date0920],
     [title |-> "Gift", content |-> "Book for Dad", tag |-> "General", created |-> Date0926]}

IndexErrands ==
    {[task |-> "Pharmacy", done |-> FALSE],
     [task |-> "Post office", done |-> TRUE],
     [task |-> "Groceries", done |-> FALSE]}

PlanItems ==
    {[time |-> Time0900, task |-> "Read", done |-> FALSE],
     [time |-> Time1000, task |-> "Run", done |-> TRUE]}

\* A planner file: an earlier day's plan or none, then today's plan or none.
IndexPlanners(now) ==
    {earlier \o todays :
        earlier \in {<<>>, <<[date |-> Date0920,
                              plan |-> <<[time |-> Time0900, task |-> "Swim", done |-> FALSE]>>]>>},
        todays \in {<<>>} \cup
                   {<<[date |-> FormatDate(now), plan |-> plan]>> :
                        plan \in SeqsUpTo(PlanItems, MaxPlan) \ {<<>>}}}

IndexAssignments ==
    {[title |-> TxtEssay, course |-> "CS101", due_date |-> Date1004, done |-> FALSE],
     [title |-> TxtEssay, course |-> "CS101", due_date |-> Date0926, done |-> TRUE,
      completed_date |-> Date0920],
     [title |-> TxtQuiz, course |-> "MATH201", due_date |-> Date1005, done |-> FALSE]}

WeekRecords ==
    {[course |-> TxtCS101, day |-> "Saturday", time |-> Time0900, room |-> "TBD"],
     [course |-> TxtCS101, day |-> "Monday", time |-> Time1000, room |-> "TBD"],
     [course |-> TxtMATH201, day |-> "Saturday", time |-> Time200, room |-> "TBD"],
     [course |-> TxtMATH201, day |-> "Funday", time |-> Time0900, room |-> "TBD"],
     [course |-> TxtMATH201, day |-> "sunday", time |-> Time1000, room |-> "TBD"]}

IndexContents(f, now) ==
    CASE f = "todos.json" -> SeqsUpTo(IndexTodos, MaxIndexed)
      [] f = "reminders.json" -> SeqsUpTo(IndexReminders, MaxIndexed)
      [] f = "notes.json" -> SeqsUpTo(IndexNotes, MaxIndexed)
      [] f = "errands.json" -> SeqsUpTo(IndexErrands, MaxIndexed)
      [] f = "planner.json" -> IndexPlanners(now)
      [] f = "assignments.json" -> SeqsUpTo(IndexAssignments, MaxIndexed)
      [] f = "schedule.json" -> SeqsUpTo(WeekRecords, MaxIndexed)

InitIndex ==
    /\ today \in Todays
    /\ \E f \in {"todos.json", "reminders.json", "notes.json", "errands.json",
                 "planner.json", "assignments.json", "schedule.json"} :
        \E s \in IndexContents(f, today) :
            files = [g \in StoreNames |-> IF g = f THEN Json(s) ELSE Absent]
    /\ out = [op |-> "start", exc |-> "none"]
    /\ pc = Menu

NextIndex ==
    \/ complete_todo
    \/ delete_todo
    \/ view_reminders
    \/ delete_reminder
    \/ view_notes
    \/ delete_note
    \/ view_errands
    \/ complete_errand
    \/ view_daily_plan
    \/ complete_plan_item
    \/ complete_assignment
    \/ remove_class

SpecIndex == InitIndex /\ [][NextIndex]_vars

\* The schedule and the assignments, whose records are picked by name.
NamedContents(f) ==
    CASE f = "assignments.json" -> SeqsUpTo(IndexAssignments, MaxEntries)
      [] f = "schedule.json" -> SeqsUpTo(WeekRecords, MaxEntries)

InitNamed ==
    /\ today \in Todays
    /\ \E f \in {"assignments.json", "schedule.json"} :
        \E s \in NamedContents(f) :
            files = [g \in StoreNames |-> IF g = f THEN Json(s) ELSE Absent]
    /\ out = [op |-> "start", exc |-> "none"]
    /\ pc = Menu

NextNamed ==
    \/ complete_assignment
    \/ view_schedule
    \/ remove_class

SpecNamed == InitNamed /\ [][NextNamed]_vars


(***************************************************************************)
(* The briefing section by section, with a clock that goes on while it is  *)
(* built.  Every section calls now() when the briefing gets to it; pc      *)
(* holds the section that comes next.                                      *)
(***************************************************************************)
MaxMidnights == 1   \* midnights the clock passes in one run

\* The days of these runs: a day the runs start on, and the day after it.
ClockDays ==
    Todays \cup {[year |-> 2026, month |-> 9, day |-> 27],
                 [year |-> 2026, month |-> 10, day |-> 2]}

\* morning_briefing() up to its first section.
briefing_starts ==
    /\ pc = Menu
    /\ pc' = [op |-> "morning_briefing", next |-> 1]
    /\ out' = [op |-> "morning_briefing", exc |-> "none",
               classes |-> NotReached, deadlines |-> NotReached, exams |-> NotReached,
               reminders |-> NotReached, todos |-> NotReached, events |-> NotReached,
               errands |-> NotReached, quote |-> 0]
    /\ UNCHANGED <<files, today>>

\* The next section of morning_briefing(), built with the day the clock
\* shows now; after the last section, the quote.
briefing_section ==
    /\ pc.op = "morning_briefing"
    /\ \E quote \in QuoteChoices :
        LET built == Sections(files, today)[pc.next]
            last == pc.next = Len(SectionNames)
        IN  /\ out' = [out EXCEPT ![SectionNames[pc.next]] = built,
                                  !.exc = built.exc,
                                  !.quote = IF built.exc = "none" /\ last THEN quote ELSE 0]
            /\ pc' = IF built.exc # "none" \/ last THEN Menu
                     ELSE [pc EXCEPT !.next = @ + 1]
    /\ UNCHANGED <<files, today>>

\* The clock passes midnight.
midnight ==
    /\ \E d \in Todays : ToOrdinal(today) - ToOrdinal(d) < MaxMidnights
                         /\ ToOrdinal(today) - ToOrdinal(d) >= 0
    /\ \E d \in ClockDays :
        /\ ToOrdinal(d) = ToOrdinal(today) + 1
        /\ today' = d
    /\ UNCHANGED <<files, out, pc>>

\* The stores of these runs: a class, a reminder and an assignment, or none.
InitMidnight ==
    /\ today \in Todays
    /\ \E schedule \in SeqsUpTo({[course |-> "CS101", day |-> "Saturday", time |-> Time0900,
                                  room |-> "TBD"],
                                 [course |-> "PHYS110", day |-> "Friday", time |-> Time1000,
                                  room |-> "TBD"]}, 1),
          reminders \in SeqsUpTo({[text |-> "Call home", date |-> Date0926, repeat |-> "Once"],
                                  [text |-> "Renew pass", date |-> Date1001, repeat |-> "Weekly"]}, 1),
          assignments \in SeqsUpTo({[title |-> TxtEssay, course |-> "CS101",
                                     due_date |-> Date0930, done |-> FALSE]}, 1) :
        files = [f \in StoreNames |->
                    CASE f = "schedule.json" /\ schedule # <<>> -> Json(schedule)
                      [] f = "reminders.json" /\ reminders # <<>> -> Json(reminders)
                      [] f = "assignments.json" /\ assignments # <<>> -> Json(assignments)
                      [] OTHER -> Absent]
    /\ out = [op |-> "start", exc |-> "none"]
    /\ pc = Menu

NextMidnight ==
    \/ briefing_starts
    \/ briefing_section
    \/ midnight

SpecMidnight == InitMidnight /\ [][NextMidnight]_vars


(***************************************************************************)
(* Properties.  The calendar day each date text of the stores denotes is   *)
(* written out here, apart from the program's parsing of the text.         *)
(***************************************************************************)
CalendarDay(s) ==
    CASE s = Date0930 -> [year |-> 2026, month |-> 9, day |-> 30]
      [] s = Date1004 -> [year |-> 2026, month |-> 10, day |-> 4]
      [] s = Date1005 -> [year |-> 2026, month |-> 10, day |-> 5]
      [] s = Date1020 -> [year |-> 2026, month |-> 10, day |-> 20]
      [] s = Date0926 -> [year |-> 2026, month |-> 9, day |-> 26]
      [] s = Date1001 -> [year |-> 2026, month |-> 10, day |-> 1]
      [] s = Date1010 -> [year |-> 2026, month |-> 10, day |-> 10]

\* Days from today to the calendar day a date text denotes.
Delta(s) == ToOrdinal(CalendarDay(s)) - ToOrdinal(today)

Count(x, s) == Cardinality({i \in DOMAIN s : s[i] = x})

Items(rows) == [i \in DOMAIN rows |-> rows[i].item]

Min(a, b) == IF a < b THEN a ELSE b

OnDisk(f) == files[f].data

\* The deadline lists of the last briefing: under the urgent heading, and
\* under the upcoming-assignments heading.
UrgentList == IF out.deadlines.mode = "urgent" THEN Items(out.deadlines.rows) ELSE <<>>

FallbackList == IF out.deadlines.mode = "upcoming" THEN Items(out.deadlines.rows) ELSE <<>>

DeadlinesShown ==
    /\ out.op = "morning_briefing"
    /\ out.deadlines.exc = "none"
    /\ out.deadlines.mode # "not reached"

PendingOnDisk == SelectSeq(OnDisk("assignments.json"), NotDone)

\* What a store holds for the program: the records of a complete JSON file.
Loaded(fs, f) == load_json(fs[f], <<>>).value

\* The stores whose sections compute with a date, and the field that holds it.
DateField(f) ==
    CASE f = "assignments.json" -> "due_date"
      [] f = "exams.json" -> "date"
      [] f = "family_events.json" -> "date"
      [] OTHER -> "none"

HoldsBadDate(f) ==
    /\ DateField(f) # "none"
    /\ \E i \in DOMAIN Loaded(files, f) :
        LET r == Loaded(files, f)[i]
        IN  Has(r, DateField(f)) /\ BadDate(r[DateField(f)])

\* The stores, with the ones that hold an unparseable date taken as empty.
BadDateStoresEmptied ==
    [f \in FileNames |-> IF HoldsBadDate(f) THEN Json(<<>>) ELSE files[f]]

\* C1: when an assignment, an exam or a family event holds a date that does
\* not parse, the briefing still completes without an error: the section of
\* that store shows what it shows for an empty store, and every other section
\* and the quote are produced as usual.
C1_BadDateDegradesSection ==
    (out.op = "morning_briefing" /\ \E f \in FileNames : HoldsBadDate(f)) =>
        /\ out.exc = "none"
        /\ out = Briefing(BadDateStoresEmptied, today, out.quote)

\* The fields a briefing section reads from a record without a default.
RequiredFields(f) ==
    CASE f = "schedule.json" -> {"day", "time"}
      [] f = "assignments.json" -> {"due_date", "title", "course"}
      [] f = "exams.json" -> {"date"}
      [] f = "todos.json" -> {"task"}
      [] f = "reminders.json" -> {"text"}
      [] OTHER -> {}

IsComplete(f, r) == \A k \in RequiredFields(f) : Has(r, k)

HoldsIncomplete(f) ==
    \E i \in DOMAIN Loaded(files, f) : ~IsComplete(f, Loaded(files, f)[i])

\* The stores, with the records that lack a required field left out.
IncompleteSkipped ==
    [f \in FileNames |->
        IF files[f].kind = "json"
        THEN LET Complete(r) == IsComplete(f, r)
             IN  Json(SelectSeq(files[f].data, Complete))
        ELSE files[f]]

\* C2: when a record lacks a field its briefing section requires, the briefing
\* skips that record only and raises nothing: it shows what it shows for the
\* stores without the record.
C2_IncompleteRecordSkipped ==
    (/\ out.op = "morning_briefing"
     /\ \A f \in FileNames : files[f].kind \in {"absent", "json"}
     /\ \E f \in FileNames : HoldsIncomplete(f)) =>
        /\ out.exc = "none"
        /\ out = Briefing(IncompleteSkipped, today, out.quote)

\* The stores, with the files that are absent or do not parse taken as empty.
UnparseableEmptied ==
    [f \in FileNames |-> IF files[f].kind = "json" THEN files[f] ELSE Json(<<>>)]

\* C3: load_json never raises and returns the caller's default for a file
\* that is absent or does not parse; so a briefing over any mix of absent,
\* corrupt and valid stores shows what it shows with those stores empty.
C3_LoadNeverRaises ==
    /\ \A f \in FileNames :
        /\ load_json(files[f], <<>>).exc = "none"
        /\ files[f].kind # "json" => load_json(files[f], <<>>).fallback
    /\ out.op = "morning_briefing" => out = Briefing(UnparseableEmptied, today, out.quote)

\* C4: a save leaves on disk either the complete old value or the complete
\* new one, whatever step it is stopped at: a store file that changes becomes
\* complete JSON, and a store that held records is not read back as the
\* default.
C4_SaveIsAtomic ==
    [][\A f \in FileNames :
        /\ files'[f] # files[f] => files'[f].kind = "json"
        /\ Loaded(files, f) # <<>> => ~load_json(files'[f], <<>>).fallback]_vars

\* C5: in the briefing, the urgent-deadlines list holds exactly the assignments
\* that are not done and due at most 3 days after today, overdue ones included
\* (each as often as the store holds it); a pending assignment due later is
\* never under the urgent heading, and a done assignment is in no deadline list.
C5_UrgentIsPendingWithinThreeDays ==
    DeadlinesShown =>
        /\ \A a \in AssignmentRecords :
            Count(a, UrgentList) =
                IF ~a.done /\ Delta(a.due_date) <= 3
                THEN Count(a, OnDisk("assignments.json")) ELSE 0
        /\ \A i \in DOMAIN UrgentList : UrgentList[i] \in AssignmentRecords
        /\ \A i \in DOMAIN FallbackList : ~FallbackList[i].done

\* A briefing that lists an overdue and a due-in-3-days assignment as urgent,
\* over a store that also holds a pending one due later and a done one.
C5_Witness ==
    /\ DeadlinesShown
    /\ \E i, j \in DOMAIN UrgentList :
        Delta(UrgentList[i].due_date) < 0 /\ Delta(UrgentList[j].due_date) = 3
    /\ \E i, j \in DOMAIN OnDisk("assignments.json") :
        LET a == OnDisk("assignments.json")[i]
            b == OnDisk("assignments.json")[j]
        IN  ~a.done /\ Delta(a.due_date) = 4 /\ b.done /\ Delta(b.due_date) <= 3

\* Of two listed assignments the one due on the earlier day comes first.
InCalendarOrder(items) ==
    \A i, j \in DOMAIN items :
        i < j => Delta(items[i].due_date) <= Delta(items[j].due_date)

\* C6: the urgent list and the fallback list of the briefing, and the list
\* upcoming_deadlines returns, are in calendar order of the due dates: of two
\* listed assignments the one due on the earlier day comes first, whatever
\* accepted spelling the due dates have.
C6_DeadlinesInCalendarOrder ==
    /\ DeadlinesShown => InCalendarOrder(UrgentList) /\ InCalendarOrder(FallbackList)
    /\ out.op = "upcoming_deadlines" /\ out.exc = "none" => InCalendarOrder(out.rows)

\* listed holds the (at most n) soonest due of the pending assignments.
SoonestOf(listed, pending, n) ==
    /\ Len(listed) = Min(n, Len(pending))
    /\ \A a \in AssignmentRecords : Count(a, listed) <= Count(a, pending)
    /\ \A a \in AssignmentRecords :
        Count(a, listed) < Count(a, pending) =>
            \A i \in DOMAIN listed : Delta(listed[i].due_date) <= Delta(a.due_date)

\* C7: the deadlines section is in one of three modes: the urgent list when a
\* pending assignment is due within 3 days; else the fallback list, the (at
\* most 3) pending assignments with the soonest due dates, when an assignment
\* is pending; else the caught-up message, shown exactly when none is pending.
C7_DeadlineModes ==
    DeadlinesShown =>
        LET someUrgent ==
                \E i \in DOMAIN PendingOnDisk : Delta(PendingOnDisk[i].due_date) <= 3
        IN  /\ out.deadlines.mode \in {"urgent", "upcoming", "caught up"}
            /\ out.deadlines.mode = "urgent" <=> someUrgent
            /\ out.deadlines.mode = "caught up" <=> PendingOnDisk = <<>>
            /\ out.deadlines.mode = "upcoming" =>
                SoonestOf(FallbackList, PendingOnDisk, 3)

\* listed holds, in calendar order, the (at most 3) soonest of the exams dated
\* today or later.
FirstUpcomingExams(listed) ==
    LET exams == OnDisk("exams.json")
        IsUpcoming(e) == Delta(e.date) >= 0
        upcoming == SelectSeq(exams, IsUpcoming)
    IN  /\ Len(listed) = Min(3, Len(upcoming))
        /\ \A e \in ExamRecords : Count(e, listed) <= Count(e, upcoming)
        /\ \A i, j \in DOMAIN listed : i < j => Delta(listed[i].date) <= Delta(listed[j].date)
        /\ \A e \in ExamRecords :
            Count(e, listed) < Count(e, upcoming) =>
                \A i \in DOMAIN listed : Delta(listed[i].date) <= Delta(e.date)

\* C8: the upcoming-exams list of the briefing, and the list upcoming_exams
\* returns, are the first 3 (or fewer) exams in ascending date order among the
\* exams dated today or later: no exam before today is listed, and the listed
\* ones are the soonest, in calendar order.
C8_UpcomingExams ==
    /\ out.op = "morning_briefing" /\ out.exams.exc = "none"
            /\ out.exams.mode # "not reached" =>
        FirstUpcomingExams(Items(out.exams.rows))
    /\ out.op = "upcoming_exams" /\ out.exc = "none" => FirstUpcomingExams(out.rows)

\* The five-bucket table: days left to bucket.
urgencyBucket(d) ==
    IF d < 0 THEN "Overdue"
    ELSE IF d = 0 THEN "Today"
    ELSE IF d <= 3 THEN "Critical"
    ELSE IF d <= 7 THEN "Warning"
    ELSE "Normal"

\* The bucket a printed row shows: by its wording for a passed or a same-day
\* row, else by its markup.
ShownBucket(row) ==
    IF row.style = "dim" /\ row.text = "Passed" THEN "Overdue"
    ELSE IF row.text \in {"TODAY!", "today"} THEN "Today"
    ELSE IF row.style = "bold red" THEN "Critical"
    ELSE IF row.style = "yellow" THEN "Warning"
    ELSE IF row.style = "plain" THEN "Normal"
    ELSE "other"

RowOps == {"view_exams", "briefing_exam", "view_family"}

\* C9: the exam tags of the briefing, the countdown column of view_exams and
\* the next-birthday column of view_family show the same bucket for the same
\* number of days, the one of the five-bucket table, so no two of them differ.
C9_CallSitesAgree ==
    out.op \in RowOps =>
        /\ ShownBucket(out) = urgencyBucket(out.delta)
        /\ out.delta >= 0 =>
            /\ out.style = view_exams_countdown(out.delta).style
            /\ out.style = briefing_exam_urgency(out.delta)
            /\ out.style = view_family_next_bday(out.delta).style

\* C10: the countdown of view_exams puts every number of days in exactly one
\* of five buckets: below 0, 0, 1 to 3, 4 to 7, above 7; 3 is Critical, 4 and
\* 7 are Warning, 8 is Normal.
C10_ExamCountdownPartition ==
    out.op = "view_exams" =>
        LET d == out.delta
            b == ShownBucket(out)
        IN  /\ b \in {"Overdue", "Today", "Critical", "Warning", "Normal"}
            /\ b = "Overdue" <=> d < 0
            /\ b = "Today" <=> d = 0
            /\ b = "Critical" <=> (1 <= d /\ d <= 3)
            /\ b = "Warning" <=> (4 <= d /\ d <= 7)
            /\ b = "Normal" <=> d > 7

\* view_exams shows an exam 3 days away as Critical.
C10_Witness ==
    /\ out.op = "view_exams"
    /\ out.delta = 3
    /\ ShownBucket(out) = "Critical"

\* Today's date as the text of a stored date, and today's weekday name.
TodayText ==
    CASE today = [year |-> 2026, month |-> 9, day |-> 26] -> Date0926
      [] today = [year |-> 2026, month |-> 10, day |-> 1] -> Date1001

TodayName ==
    CASE today = [year |-> 2026, month |-> 9, day |-> 26] -> "Saturday"
      [] today = [year |-> 2026, month |-> 10, day |-> 1] -> "Thursday"

\* A section of the last briefing was built and printed without an error.
SectionShown(section) ==
    /\ out.op = "morning_briefing"
    /\ section.exc = "none"
    /\ section.mode # "not reached"

RemindersDueToday ==
    LET DatedToday(r) == Has(r, "date") /\ r.date = TodayText
    IN  SelectSeq(OnDisk("reminders.json"), DatedToday)

\* C11: the today's-reminders list of the briefing and the list
\* todays_reminders returns hold exactly the reminders whose stored date is
\* today's date, in store order; a Daily, Weekly or Monthly reminder stored
\* with another date is not listed.
C11_RemindersDueTodayOnly ==
    /\ SectionShown(out.reminders) => Items(out.reminders.rows) = RemindersDueToday
    /\ out.op = "todays_reminders" => out.exc = "none" /\ out.rows = RemindersDueToday

\* A briefing that lists a reminder of today and leaves out a repeating one
\* stored with another date.
C11_Witness ==
    /\ SectionShown(out.reminders)
    /\ out.reminders.rows # <<>>
    /\ \E i \in DOMAIN OnDisk("reminders.json") :
        LET r == OnDisk("reminders.json")[i]
        IN  /\ r.repeat \in {"Daily", "Weekly", "Monthly"}
            /\ Has(r, "date") /\ r.date # TodayText
            /\ \A j \in DOMAIN out.reminders.rows : out.reminders.rows[j].item # r

PendingTodosOnDisk == SelectSeq(OnDisk("todos.json"), NotDone)

PendingHighOnDisk ==
    LET IsHigh(t) == Has(t, "priority") /\ t.priority = "High"
    IN  SelectSeq(PendingTodosOnDisk, IsHigh)

\* C12: the to-do section lists at most 3 to-dos, each not done and of
\* priority High, when a pending High to-do exists; else, when to-dos are
\* pending, it shows the number of not-done to-dos; a done to-do is neither
\* listed nor counted.
C12_HighPriorityOrCount ==
    SectionShown(out.todos) =>
        LET listed == Items(out.todos.rows)
        IN  /\ PendingHighOnDisk # <<>> =>
                /\ out.todos.mode = "high priority"
                /\ Len(listed) = Min(3, Len(PendingHighOnDisk))
                /\ \A t \in TodoRecords : Count(t, listed) <= Count(t, PendingHighOnDisk)
            /\ PendingHighOnDisk = <<>> /\ PendingTodosOnDisk # <<>> =>
                /\ out.todos.mode = "count"
                /\ listed = <<>>
                /\ out.todos.count =
                    Cardinality({i \in DOMAIN OnDisk("todos.json") :
                                    ~OnDisk("todos.json")[i].done})
            /\ PendingTodosOnDisk = <<>> => listed = <<>> /\ out.todos.mode = "nothing"
            /\ \A i \in DOMAIN listed : ~listed[i].done /\ listed[i].priority = "High"

\* A briefing that shows the count of pending to-dos over a store that also
\* holds a done one.
C12_Witness ==
    /\ SectionShown(out.todos)
    /\ out.todos.mode = "count"
    /\ out.todos.count = 2
    /\ \E i \in DOMAIN OnDisk("todos.json") : OnDisk("todos.json")[i].done

EventsWithinTwoWeeks ==
    LET Within(e) == Has(e, "date") /\ 0 <= Delta(e.date) /\ Delta(e.date) <= 14
    IN  SelectSeq(OnDisk("family_events.json"), Within)

\* C13: the family-events section lists exactly the events 0 to 14 days
\* ahead, in store order; past events, events further ahead and events
\* without a date are not listed.
C13_EventsWithinTwoWeeks ==
    SectionShown(out.events) => Items(out.events.rows) = EventsWithinTwoWeeks

\* A briefing that lists an event 14 days ahead before one of today, as the
\* store has them, over a store that also holds an event without a date.
C13_Witness ==
    /\ SectionShown(out.events)
    /\ Len(out.events.rows) = 2
    /\ Delta(out.events.rows[1].item.date) = 14
    /\ Delta(out.events.rows[2].item.date) = 0
    /\ \E i \in DOMAIN OnDisk("family_events.json") :
        ~Has(OnDisk("family_events.json")[i], "date")

\* rows holds each schedule entry of today's weekday once per entry of the
\* store, no other entry, and in ascending order of the time text.
ClassesOfToday(rows) ==
    /\ \A c \in ScheduleRecords :
        Count(c, rows) = IF c.day = TodayName THEN Count(c, OnDisk("schedule.json")) ELSE 0
    /\ \A i \in DOMAIN rows : rows[i] \in ScheduleRecords
    /\ \A i, j \in DOMAIN rows : i < j => ~StrLess(rows[j].time, rows[i].time)

\* C14: the today's-classes section of the briefing, and todays_classes, show
\* exactly the schedule entries of today's weekday, one row each, in ascending
\* order of the time text; the free-day message is shown exactly when no
\* entry is of today's weekday.
C14_ClassesOfToday ==
    LET noneToday ==
            \A i \in DOMAIN OnDisk("schedule.json") :
                OnDisk("schedule.json")[i].day # TodayName
    IN  /\ SectionShown(out.classes) =>
            /\ ClassesOfToday(Items(out.classes.rows))
            /\ out.classes.mode = "free day" <=> noneToday
        /\ out.op = "todays_classes" =>
            /\ out.exc = "none"
            /\ ClassesOfToday(out.rows)
            /\ out.mode = "free day" <=> noneToday

\* A briefing that lists three classes of today by time text, stored in the
\* opposite order.
C14_Witness ==
    /\ SectionShown(out.classes)
    /\ Len(out.classes.rows) = 3
    /\ out.classes.rows[1].item.time = Time0900
    /\ out.classes.rows[3].item.time = Time200
    /\ OnDisk("schedule.json")[1].time = Time200

\* The sections of a briefing, the quote apart.
SectionsOf(briefing) ==
    <<briefing.exc, briefing.classes, briefing.deadlines, briefing.exams,
      briefing.reminders, briefing.todos, briefing.events, briefing.errands>>

C16_BuildsReadFreshWriteNothing ==
    [][/\ out'.op \in {"morning_briefing", "quick_stats"} => files' = files
       /\ out'.op = "morning_briefing" => out' = Briefing(files', today', out'.quote)
       /\ out'.op = "quick_stats" /\ out'.exc = "none" =>
            /\ out'.classes = Len(Loaded(files', "schedule.json"))
            /\ out'.pending_todos + out'.done_todos = Len(Loaded(files', "todos.json"))
            /\ out'.pending_assignments + out'.done_assignments =
                    Len(Loaded(files', "assignments.json"))]_vars

\* A briefing built after two adds and a completion: the assignment completed
\* is on disk as done and the briefing lists the pending one only.
C16_Witness ==
    /\ out.op = "morning_briefing"
    /\ Len(OnDisk("assignments.json")) = 2
    /\ \E i \in DOMAIN OnDisk("assignments.json") : OnDisk("assignments.json")[i].done
    /\ out.deadlines.exc = "none"
    /\ Len(out.deadlines.rows) = 1

\* The sum of the credits, and of points times credits in tenths, on disk.
TotalCredits ==
    SumOver([i \in DOMAIN OnDisk("grades.json") |-> OnDisk("grades.json")[i].credits], 1)

TotalPoints ==
    SumOver([i \in DOMAIN OnDisk("grades.json") |->
                GPA_SCALE(OnDisk("grades.json")[i].grade)
                    * OnDisk("grades.json")[i].credits], 1)

\* C17: calculate_gpa returns the sum of points times credits over the sum
\* of credits, a letter outside the table giving 0 points while its credits
\* count; it returns 0.0 when there is no grade or the credits sum to 0, and
\* never fails (points in tenths, the quotient compared by cross product).
C17_GpaIsWeightedMean ==
    out.op = "calculate_gpa" =>
        /\ out.exc = "none"
        /\ IF OnDisk("grades.json") = <<>> \/ TotalCredits = 0
           THEN out.gpa.num = 0
           ELSE out.gpa.num * TotalCredits = TotalPoints * out.gpa.den

LastDayOfMonth(y, m) ==
    CASE m \in {4, 6, 9, 11} -> 30
      [] m = 2 -> IF y = 2024 THEN 29 ELSE 28
      [] OTHER -> 31

DayAfter(d) ==
    IF d.day < LastDayOfMonth(d.year, d.month)
    THEN [year |-> d.year, month |-> d.month, day |-> d.day + 1]
    ELSE IF d.month < 12 THEN [year |-> d.year, month |-> d.month + 1, day |-> 1]
    ELSE [year |-> d.year + 1, month |-> 1, day |-> 1]

Earlier(a, b) ==
    \/ a.year < b.year
    \/ a.year = b.year /\ a.month < b.month
    \/ a.year = b.year /\ a.month = b.month /\ a.day < b.day

DayOf(clock) == [year |-> clock.year, month |-> clock.month, day |-> clock.day]

\* C19: days_until gives the signed number of whole calendar days from today
\* to the target day, whatever the hour: 0 for today, below 0 for a past day,
\* one more for the day after the target; and from day a to day b it is the
\* negation of what it is from b to a.
C19_DaysUntilSignedWholeDays ==
    out.op = "days_until" =>
        LET target == CHOOSE d \in Days : FormatDate(d) = out.target
            otherHour == [today EXCEPT !.hour = 23 - @]
        IN  /\ out.exc = "none"
            /\ out.delta = 0 <=> target = DayOf(today)
            /\ out.delta < 0 <=> Earlier(target, DayOf(today))
            /\ days_until(FormatDate(DayAfter(target)), today) = out.delta + 1
            /\ days_until(out.target, otherHour) = out.delta
            /\ days_until(FormatDate(today), target) = -out.delta

\* Late in the evening of 2024-02-28, the first of March is 2 days ahead.
C19_Witness ==
    /\ out.op = "days_until"
    /\ today = [year |-> 2024, month |-> 2, day |-> 28, hour |-> 23]
    /\ out.target = FormatDate([year |-> 2024, month |-> 3, day |-> 1])
    /\ out.delta = 2

\* The rank of a to-do: High 0, Medium 1, Low 2, any other or no priority 1.
RankOf(t) ==
    IF Has(t, "priority") /\ t.priority = "High" THEN 0
    ELSE IF Has(t, "priority") /\ t.priority = "Low" THEN 2
    ELSE 1

\* rows holds the to-dos of stored, ascending by (done, rank), the to-dos of
\* one rank and one done flag in the order stored has them.
OrderedByRank(rows, stored) ==
    /\ Len(rows) = Len(stored)
    /\ \A i, j \in DOMAIN rows :
        i < j => \/ rows[i].done = FALSE /\ rows[j].done = TRUE
                 \/ rows[i].done = rows[j].done /\ RankOf(rows[i]) <= RankOf(rows[j])
    /\ \A k \in 0..2, done \in BOOLEAN :
        LET Same(t) == RankOf(t) = k /\ t.done = done
        IN  SelectSeq(rows, Same) = SelectSeq(stored, Same)

\* C20: view_todos lists the to-dos not done first, then by rank High,
\* Medium, Low, and pending_todos the pending ones by rank; a to-do with no
\* priority or one outside the three ranks as Medium, keeps its place among
\* the to-dos of its rank, and raises nothing.
C20_TodosByPriorityRank ==
    /\ out.op = "view_todos" =>
        out.exc = "none" /\ OrderedByRank(out.rows, OnDisk("todos.json"))
    /\ out.op = "pending_todos" =>
        /\ out.exc = "none"
        /\ OrderedByRank(out.rows, PendingTodosOnDisk)
        /\ \A i \in DOMAIN out.rows : ~out.rows[i].done

\* pending_todos over Low, an unknown priority, no priority, High: High comes
\* first, the two ranked as Medium follow as stored, Low is last.
C20_Witness ==
    /\ out.op = "pending_todos"
    /\ Len(out.rows) = 4
    /\ out.rows[1].task = "Laundry"
    /\ out.rows[2].task = "Shoes"
    /\ out.rows[3].task = "Plants"
    /\ out.rows[4].task = "Books"
    /\ OnDisk("todos.json")[1].task = "Books"

(***************************************************************************)
(* Research history.                                                       *)
(***************************************************************************)
ResearchHistory(fs) == fs["research_history.json"].data

LastOf(s, n) == IF Len(s) > n THEN SubSeq(s, Len(s) - n + 1, Len(s)) ELSE s

\* The entries are in the order they were saved, and the entry saved last is
\* the last one.
MostRecentInOrder(history, clock) ==
    /\ \A i \in 1..(Len(history) - 1) : history[i + 1].timestamp > history[i].timestamp
    /\ history # <<>> => history[Len(history)].timestamp = clock.time

\* C27: the research history holds at most 100 entries, the most recently
\* saved ones in the order they were saved; a save that finishes leaves the
\* last 100 of the entries held before followed by the new entry, so at 101
\* exactly the oldest entry is dropped and the new entry is last.
C27_HistoryKeepsLastHundred ==
    [][out'.op = "_save_research" /\ out'.exc = "none" =>
          LET before == ResearchHistory(files)
              after == ResearchHistory(files')
          IN  /\ Len(after) <= HistoryKept
              /\ Len(after) = IF Len(before) < HistoryKept THEN Len(before) + 1 ELSE HistoryKept
              /\ after[Len(after)].timestamp = today'.time
              /\ \A i \in 1..(Len(after) - 1) :
                    after[i] = before[Len(before) + 1 - (Len(after) - i)]
              /\ MostRecentInOrder(after, today')]_vars

C27_Witness ==
    /\ out.op = "_save_research" /\ out.exc = "none"
    /\ Len(ResearchHistory(files)) = HistoryKept
    /\ ResearchHistory(files)[1].timestamp = 3
    /\ ResearchHistory(files)[HistoryKept].timestamp = HistoryKept + 2


(***************************************************************************)
(* Records stay until the user removes them.                               *)
(***************************************************************************)
\* The stores that hold a list of records.
ListStores == StoreNames \ {"planner.json", "profile.json"}

HeldIn(fs, f, r) == \E i \in Indices(fs[f].data) : fs[f].data[i] = r

\* C21: no add, view or briefing action that runs to its end takes a record
\* out of a store: every record a store holds before the action, the store
\* holds after it (research history and bookmarks included).
C21_RecordsNeverLeave ==
    [][out'.exc # "stopped" =>
          \A f \in ListStores : \A i \in Indices(files[f].data) :
              HeldIn(files', f, files[f].data[i])]_vars


(***************************************************************************)
(* The Pomodoro timer.                                                     *)
(***************************************************************************)
TimerRuns == pc.op = "pomodoro_timer"

\* A step of pomodoro_timer: its start, a second of a countdown, an interrupt.
TimerStep == TimerRuns \/ out'.op = "pomodoro_timer"

Lines(s, line) == {i \in Indices(s) : s[i] = line}

\* C22: no step of the Pomodoro timer, from its start to its return, writes
\* a store: a tick or an interrupt at any second of a work or break
\* countdown leaves every store file as it was.
C22_TimerWritesNoStore ==
    [][TimerStep => files' = files]_vars

C22_Witness ==
    /\ pc = Menu
    /\ out.op = "pomodoro_timer"
    /\ Lines(out.lines, "skipped") # {}
    /\ out.lines[Len(out.lines)] = "stopped"
    /\ files["errands.json"].data # <<>>
    /\ files["todos.json"].kind = "torn"


\* The timer has returned, its loop having run to the end.
TimerComplete ==
    /\ pc = Menu
    /\ out.op = "pomodoro_timer"
    /\ out.lines[Len(out.lines)] = "complete"

Uninterrupted == Lines(out.lines, "skipped") = {} /\ Lines(out.lines, "stopped") = {}

\* Work and break countdowns alternate, starting with work.
Alternating(lines) ==
    \A i \in Indices(lines) :
        lines[i] \in {"work", "break"} =>
            lines[i] = IF i % 2 = 1 THEN "work" ELSE "break"

\* An interrupt is what prints "stopped" or "skipped".
InterruptStep ==
    /\ TimerRuns
    /\ Len(out'.lines) > Len(out.lines)
    /\ out'.lines[Len(out.lines) + 1] \in {"stopped", "skipped"}

InterruptEffect ==
    IF pc.phase = "work"
    THEN /\ pc' = Menu
         /\ out'.lines = Append(out.lines, "stopped")
    ELSE /\ Len(out'.lines) >= Len(out.lines) + 2
         /\ SubSeq(out'.lines, Len(out.lines) + 1, Len(out.lines) + 2) = <<"skipped", "work">>

\* The claim as the spec words it: with N sessions and no interrupt, N work
\* and N - 1 break countdowns, whatever N is.
C29_CountdownsForAnyN ==
    TimerComplete /\ Uninterrupted =>
        /\ Cardinality(Lines(out.lines, "work")) = out.sessions
        /\ Cardinality(Lines(out.lines, "break")) = out.sessions - 1

\* C29: pomodoro_timer with N >= 1 sessions and no interrupt runs exactly N
\* work and N - 1 break countdowns, alternating and starting with work, and
\* with N < 1 it runs no countdown at all; in both cases it terminates.  An
\* interrupt during a work countdown ends the timer at once, an interrupt
\* during a break ends that break only and the next work session starts.
C29_TimerSessions ==
    /\ [](TimerComplete /\ Uninterrupted =>
            /\ Alternating(out.lines)
            /\ Len(out.lines) = IF out.sessions >= 1 THEN 2 * out.sessions ELSE 1
            /\ Cardinality(Lines(out.lines, "work")) =
                  IF out.sessions >= 1 THEN out.sessions ELSE 0
            /\ Cardinality(Lines(out.lines, "break")) =
                  IF out.sessions >= 1 THEN out.sessions - 1 ELSE 0)
    /\ [][InterruptStep => InterruptEffect]_vars
    /\ (TimerRuns ~> pc = Menu)

C29_Witness ==
    /\ TimerComplete
    /\ out.sessions = 3
    /\ out.lines = <<"work", "break", "work", "break", "work", "complete">>


(***************************************************************************)
(* The weather line.                                                       *)
(***************************************************************************)
WeatherBuilt == out.op = "morning_briefing" /\ Has(out, "weather")

ProfileCity ==
    LET profile == load_json(files["profile.json"], <<>>).value
    IN  IF Has(profile, "city") THEN profile.city ELSE <<>>

\* The fetch did not bring weather data: no library, no city, an exception
\* of the transport, a status other than 200.
FetchFailed ==
    \/ ~out.library
    \/ ProfileCity = <<>>
    \/ out.fetch.exc # "none"
    \/ out.fetch.status # 200

\* C23: get_weather never raises, and a failure of the fetch (library
\* missing, no city, timeout or transport failure, non-200 status) comes
\* back as a text that morning_briefing does not show as weather data.
C23_WeatherFailureNotShown ==
    /\ out.op = "morning_briefing" /\ files["profile.json"].kind # "undecodable" =>
          Has(out, "weather")
    /\ WeatherBuilt /\ FetchFailed => ~out.weather_shown


(***************************************************************************)
(* The weekly schedule.                                                    *)
(***************************************************************************)
\* Monday is 1, Sunday is 7; 0 for a day that is none of the seven names.
WeekdayNumber(day) ==
    IF \E i \in 1..7 : DayNames[i] = day
    THEN CHOOSE i \in 1..7 : DayNames[i] = day
    ELSE 0

SamePermutation(a, b) ==
    /\ Len(a) = Len(b)
    /\ \A i \in Indices(a) : Count(a[i], a) = Count(a[i], b)

\* C24: view_schedule shows the stored classes ordered by weekday, Monday to
\* Sunday, and by time text within a day; a class whose day is none of the
\* seven names raises nothing and comes after every class whose day is one.
C24_ScheduleByDayAndTime ==
    out.op = "view_schedule" =>
        /\ out.exc = "none"
        /\ SamePermutation(out.rows, Loaded(files, "schedule.json"))
        /\ \A i, j \in Indices(out.rows) :
              i < j =>
                LET a == out.rows[i]
                    b == out.rows[j]
                IN  /\ WeekdayNumber(b.day) # 0 => WeekdayNumber(a.day) # 0
                    /\ WeekdayNumber(b.day) # 0 => WeekdayNumber(a.day) <= WeekdayNumber(b.day)
                    /\ a.day = b.day => ~StrLess(b.time, a.time)

C24_Witness ==
    /\ out.op = "view_schedule"
    /\ Len(out.rows) = 3
    /\ out.rows # Loaded(files, "schedule.json")
    /\ out.rows[1].day = "Saturday" /\ out.rows[1].time = Time0900
    /\ out.rows[2].day = "Saturday" /\ out.rows[2].time = Time200
    /\ out.rows[3].day = "Funday"


(***************************************************************************)
(* Records picked by number or by name.                                    *)
(***************************************************************************)
IndexOps ==
    {"complete_todo", "delete_todo", "delete_reminder", "delete_note",
     "complete_errand", "complete_plan_item"}

\* The store file an operation works on.
StoreOf(op) ==
    CASE op \in {"complete_todo", "delete_todo"} -> "todos.json"
      [] op = "delete_reminder" -> "reminders.json"
      [] op = "delete_note" -> "notes.json"
      [] op = "complete_errand" -> "errands.json"
      [] op = "complete_plan_item" -> "planner.json"
      [] op = "complete_assignment" -> "assignments.json"
      [] op = "remove_class" -> "schedule.json"

\* The list the operation works on, as the store holds it.
StoredList(op, fs, now) ==
    IF op = "complete_plan_item"
    THEN PlanOf(Loaded(fs, "planner.json"), FormatDate(now))
    ELSE Loaded(fs, StoreOf(op))

\* The numbered list the operation puts on the screen before it asks.
ShownList(op, fs, now) ==
    CASE op \in {"complete_todo", "delete_todo"} ->
            view_todos_table(load_json(fs["todos.json"], <<>>)).rows
      [] op = "delete_reminder" ->
            view_reminders_table(load_json(fs["reminders.json"], <<>>)).rows
      [] op = "delete_note" -> view_notes_shown(load_json(fs["notes.json"], <<>>)).rows
      [] op = "complete_errand" -> view_errands_table(load_json(fs["errands.json"], <<>>)).rows
      [] op = "complete_plan_item" ->
            view_daily_plan_shown(load_json(fs["planner.json"], <<>>), now).rows

\* C25: the record an index-driven action completes or deletes is the one
\* that was shown under the number typed: for a deletion the store loses
\* that record and no other, for a completion that record ends up done and
\* no other record changes.
C25_ActsOnTheRecordShown ==
    [][out'.op \in IndexOps /\ out'.said = "done" =>
          LET op == out'.op
              picked == ShownList(op, files, today)[out'.number]
              before == StoredList(op, files, today)
              after == StoredList(op, files', today)
          IN  \E i \in Indices(before) :
                /\ before[i] = picked
                /\ IF op \in {"delete_todo", "delete_reminder", "delete_note"}
                   THEN after = Pop(before, i - 1)
                   ELSE /\ Len(after) = Len(before)
                        /\ after[i].done
                        /\ \A j \in Indices(before) \ {i} : after[j] = before[j]]_vars


\* The handler got as far as asking for the number or the name.
Asked(o) == o.said \in {"done", "no match"}

\* The records of the list that the name typed picks out.
Named(op, list, name) ==
    {i \in Indices(list) :
        IF op = "complete_assignment"
        THEN NotDone(list[i]) /\ Lower(list[i].title) = Lower(name)
        ELSE Lower(list[i].course) = Lower(name)}

\* C26: a number outside 1..length of the list makes an index-driven action
\* say that the number is invalid and leave the store file as it was; a
\* title or course that matches no record makes complete_assignment and
\* remove_class do the same.
C26_NoMatchLeavesStore ==
    [][/\ out'.op \in IndexOps /\ Asked(out')
          /\ out'.number \notin 1..Len(StoredList(out'.op, files, today))
          => out'.said = "no match" /\ files' = files
       /\ out'.op = "complete_assignment" /\ Asked(out')
          /\ Named(out'.op, StoredList(out'.op, files, today), out'.title) = {}
          => out'.said = "no match" /\ files' = files
       /\ out'.op = "remove_class" /\ Asked(out')
          /\ Named(out'.op, StoredList(out'.op, files, today), out'.course) = {}
          => out'.said = "no match" /\ files' = files]_vars

C26_Witness ==
    /\ out.op = "complete_errand"
    /\ out.number = 0
    /\ out.said = "no match"
    /\ Len(Loaded(files, "errands.json")) = 2
    /\ NotDone(Loaded(files, "errands.json")[2])


CompletionOps ==
    {"complete_assignment", "complete_todo", "complete_errand", "complete_plan_item"}

IsDone(r) == Has(r, "done") /\ r.done = TRUE

\* C30: completion is monotonic and minimal.  Under any action a list keeps
\* its done records done; a completion action changes at most one record
\* of its list, never one that was done already, and leaves the others and
\* their order as they were.
C30_CompletionMonotonicMinimal ==
    [][/\ \A op \in CompletionOps :
            LET before == StoredList(op, files, today)
                after == StoredList(op, files', today)
            IN  Len(after) = Len(before) =>
                    \A i \in Indices(before) : IsDone(before[i]) => IsDone(after[i])
       /\ out'.op \in CompletionOps /\ out'.said = "done" =>
            LET before == StoredList(out'.op, files, today)
                after == StoredList(out'.op, files', today)
                changed == {i \in Indices(before) : after[i] # before[i]}
            IN  /\ Len(after) = Len(before)
                /\ Cardinality(changed) <= 1
                /\ \A i \in changed : ~IsDone(before[i])]_vars


(***************************************************************************)
(* The briefing and the clock.                                             *)
(***************************************************************************)
BriefingDone == pc = Menu /\ out.op = "morning_briefing"

\* C28: a finished briefing is the briefing of one calendar day: all of
\* its sections are what Briefing builds from the stores for that one day,
\* also when the clock passes midnight while the briefing is built.
C28_BriefingOfOneDay ==
    BriefingDone => \E d \in ClockDays : out = Briefing(files, d, out.quote)


====
